---- MODULE Spec2Model ----
(***************************************************************************)
(* A model of build-openmw.py: the generic build step (build_library),     *)
(* revision resolution (get_repo_sha), package installation                *)
(* (install_packages), the packager (make_portable_package) and main.      *)
(*                                                                         *)
(* Python strings are modelled as sequences of tokens (a token is a piece  *)
(* of text the program never looks inside): "openmw-" + sha is             *)
(* <<"openmw", "-", sha>>, os.path.join(a, b) is a \o <<"/">> \o b, and    *)
(* `x in s` is the contiguous-subsequence test.  Distribution strings are  *)
(* sequences of single characters, because the program lower-cases them    *)
(* and searches them.                                                      *)
(***************************************************************************)
EXTENDS Integers, Sequences, FiniteSets, TLC

VARIABLES
    parsed,   \* argparse's result for this run (the command line)
    host,     \* the machine: uid, lsb_release behaviour, TES3MP_FORGE
    run,      \* number of the current run of the script on this machine
    pc,       \* position of main
    exit,     \* "none" while the process runs, else how it ended
    loc,      \* main's local variables that later statements read
    pkgs,     \* the module-level package lists (mutable Python lists)
    call,     \* the arguments of the build_library call in progress
    bpc,      \* position inside build_library
    cmds,     \* external commands executed by the operation in progress
    fs,       \* the file system: directories, files (with content), symlinks
    cwd,      \* the process's current working directory
    remote,   \* the commit origin/master names on the remote of the main project
    pk,       \* the arguments of the make_portable_package call in progress
    ppc       \* position inside make_portable_package

vars == <<parsed, host, run, pc, exit, loc, pkgs, call, bpc, cmds, fs, cwd, remote, pk, ppc>>

-----------------------------------------------------------------------------
(* Python values and strings *)

PyNone == <<"<None>">>
PyFalse == <<"<False>">>
Truthy(v) == v \notin {PyNone, PyFalse, <<>>}
PyStr(v) == IF v = PyFalse THEN <<"False">> ELSE IF v = PyNone THEN <<"None">> ELSE v

\* Python's `sub in s` on strings
Contains(s, sub) == \E i \in 0..(Len(s) - Len(sub)) : SubSeq(s, i + 1, i + Len(sub)) = sub

IsPrefix(a, b) == Len(a) <= Len(b) /\ SubSeq(b, 1, Len(a)) = a

\* os.path.join of two parts
Join(a, b) == a \o <<"/">> \o b

\* p is d or lies below d
UnderPath(d, p) == p = d \/ IsPrefix(d \o <<"/">>, p)

RECURSIVE Dirname(_)
Dirname(p) ==
    IF p = <<>> THEN <<>>
    ELSE IF p[Len(p)] = "/" THEN SubSeq(p, 1, Len(p) - 1)
    ELSE Dirname(SubSeq(p, 1, Len(p) - 1))

-----------------------------------------------------------------------------
(* Module-level constants of the script *)

BULLET_VERSION == <<"2.86.1">>
MYGUI_VERSION == <<"3.2.2">>
UNSHIELD_VERSION == <<"1.4.2">>
OPENMW_OSG_BRANCH == <<"3.4">>
UPSTREAM_OSG_VERSION == <<"OpenSceneGraph-3.6.5">>
TES3MP_CORESCRIPTS_VERSION == <<"0.7.0">>
CPUS == <<"cpu_count+1">>
OPT == <<"/opt">>
INSTALL_PREFIX == Join(OPT, <<"build-openmw">>)
OUT_DIR == <<"$HOME">>
SRC_DIR == Join(INSTALL_PREFIX, <<"src">>)

OSG == <<"osg">>
OSG_OPENMW == <<"osg", "-", "openmw">>
BULLET == <<"bullet">>
UNSHIELD == <<"unshield">>
MYGUI == <<"mygui">>
OPENMW == <<"openmw">>
TES3MP == <<"tes3mp">>
TES3MP_SERVER == <<"tes3mp", "-", "server">>

OSG_URL == <<"https://github.com/openscenegraph/OpenSceneGraph.git">>
OSG_OPENMW_URL == <<"https://github.com/OpenMW/osg.git">>
BULLET_URL == <<"https://github.com/bulletphysics/bullet3.git">>
UNSHIELD_URL == <<"https://github.com/twogood/unshield.git">>
MYGUI_URL == <<"https://github.com/MyGUI/mygui.git">>
OPENMW_URL == <<"https://github.com/OpenMW/openmw.git">>
TES3MP_URL == <<"https://github.com/TES3MP/openmw-tes3mp.git">>

-----------------------------------------------------------------------------
(* The file system.  fs.dirs is a set of paths, fs.files a set of          *)
(* [p: path, c: content], fs.links a set of [p: path, t: target], the      *)
(* target being relative to the link's directory.                          *)

\* the path with a symlinked directory on it followed
Resolve(F, p) ==
    IF \E l \in F.links : UnderPath(l.p, p)
    THEN LET l == CHOOSE l \in F.links : UnderPath(l.p, p)
         IN Join(Dirname(l.p), l.t) \o SubSeq(p, Len(l.p) + 1, Len(p))
    ELSE p

IsLink(F, p) == \E l \in F.links : l.p = p
IsDir(F, p) == Resolve(F, p) \in F.dirs
IsFile(F, p) == \E f \in F.files : f.p = Resolve(F, p)
Exists(F, p) == IsDir(F, p) \/ IsFile(F, p)
Content(F, p) == (CHOOSE f \in F.files : f.p = Resolve(F, p)).c

MkDir(F, p) == [F EXCEPT !.dirs = @ \cup {p}]
WriteFile(F, p, c) == [F EXCEPT !.files = {f \in @ : f.p # p} \cup {[p |-> p, c |-> c]}]
RemoveFile(F, p) == [F EXCEPT !.files = {f \in @ : f.p # p}]
\* shutil.rmtree
RmTree(F, p) ==
    [F EXCEPT !.dirs = {d \in @ : ~UnderPath(p, d)},
              !.files = {f \in @ : ~UnderPath(p, f.p)},
              !.links = {l \in @ : ~UnderPath(p, l.p)}]

-----------------------------------------------------------------------------
(* git.  A checkout is a directory holding .git/HEAD (the commit checked   *)
(* out) and .git/origin/master (the last fetched tip of the remote's       *)
(* master).  The main project has two commits, c1 and c2, tagged t1 and    *)
(* t2; any other revision name stands for the commit it names.             *)

HeadFile(repo) == Join(repo, <<".git", "/", "HEAD">>)
TipFile(repo) == Join(repo, <<".git", "/", "origin/master">>)
ORIGIN_MASTER == <<"origin/", "master">>

TagCommit(rev) ==
    CASE rev = <<"t1">> -> <<"c1">>
      [] rev = <<"t2">> -> <<"c2">>
      [] OTHER -> rev

\* the commit `rev` names in the checkout at `repo`
RevCommit(F, repo, rev) ==
    IF rev = ORIGIN_MASTER THEN Content(F, TipFile(repo)) ELSE TagCommit(rev)

\* git rev-parse --short HEAD
ShortHash(commit) ==
    CASE commit = <<"c1">> -> <<"h1">>
      [] commit = <<"c2">> -> <<"h2">>
      [] OTHER -> <<"h:">> \o commit

\* the tip of the default branch a clone of `url` checks out
RemoteTip(url, rem) ==
    IF url \in {OPENMW_URL, TES3MP_URL} THEN <<rem>> ELSE <<"upstream-master">>

\* a successful `git clone [-b branch] url dest`
GitClone(F, repo, url, branch, rem) ==
    LET tip == RemoteTip(url, rem)
        F1 == MkDir(F, repo)
        F2 == WriteFile(F1, TipFile(repo), tip)
    IN WriteFile(F2, HeadFile(repo), IF branch = <<>> THEN tip ELSE <<"origin/">> \o branch)

\* git checkout rev; git reset --hard rev2
GitResetKeep(F, repo, rev) == F
GitReset(F, repo, rev) == WriteFile(F, HeadFile(repo), RevCommit(F, repo, rev))

-----------------------------------------------------------------------------
(* execute_shell: the outcomes of an external command *)

RCs == {0, 1}
StdErrs == {<<>>, <<"stderr">>}

\* what execute_shell(...)[1][1] is: stderr is captured only when not verbose
CapturedErr(verbose, serr) == IF verbose THEN PyNone ELSE serr

Cmd(argv, rc, serr) == [argv |-> argv, rc |-> rc, err |-> serr]

IsClone(e) == e.argv[1] = <<"git">> /\ e.argv[2] = <<"clone">>
IsCheckout(e) == e.argv[1] = <<"git">> /\ e.argv[2] = <<"checkout">> /\ e.argv[3] # <<"--">>
IsResetHard(e) == e.argv[1] = <<"git">> /\ e.argv[2] = <<"reset">> /\ e.argv[3] = <<"--hard">>
IsFetch(e) == e.argv[1] = <<"git">> /\ e.argv[2] = <<"fetch">>
IsPatch(e) == e.argv[1] = <<"patch">>
IsCmake(e) == e.argv[1] = <<"cmake">>
IsMakeInstall(e) == e.argv[1] = <<"make">> /\ e.argv[2] = <<"install">>
IsMake(e) == e.argv[1] = <<"make">> /\ e.argv[2] # <<"install">>

-----------------------------------------------------------------------------
(* build_library.  `call` holds the arguments; call.found records that the *)
(* "found!" branch was taken, call.install_rc the exit status of its make  *)
(* install, and call.entry the file system and working directory the call  *)
(* started from.                                                           *)

NoCall == [libname |-> <<>>]

BuildCall(F, d, cpus, libname, check_file, clone_dest, cmake_args, env, force, install_prefix, git_url, make_install, patch, src_dir, verbose, version) ==
    [libname |-> libname, check_file |-> check_file, clone_dest |-> clone_dest,
     cmake |-> TRUE, cmake_args |-> cmake_args, cmake_target |-> <<"..">>, cpus |-> cpus,
     env |-> env, force |-> force, install_prefix |-> install_prefix, git_url |-> git_url,
     make_install |-> make_install, patch |-> patch, src_dir |-> src_dir,
     verbose |-> verbose, version |-> version,
     found |-> FALSE, install_rc |-> 0, entry |-> [fs |-> F, cwd |-> d]]

\* line 151: clone_dest defaults to libname
CloneDest(c) == IF Truthy(c.clone_dest) THEN c.clone_dest ELSE c.libname
RepoPath(c) == Join(c.src_dir, CloneDest(c))
BuildDir(c) == Join(RepoPath(c), <<"build">>)

\* line 153: the library counts as built
SkipBuildForced(F, c) == Exists(F, c.check_file) /\ IsFile(F, c.check_file)
SkipBuildInverted(F, c) == Exists(F, c.check_file) /\ IsFile(F, c.check_file) /\ c.force
SkipBuild(F, c) == Exists(F, c.check_file) /\ IsFile(F, c.check_file) /\ ~c.force

\* error_and_die: sys.exit(1)
Die == exit' = "1"
\* an exception nothing catches: a traceback, exit status 1
Raise == exit' = "traceback"

CloneArgv(c) ==
    IF Contains(CloneDest(c), OSG_OPENMW)
    THEN <<<<"git">>, <<"clone">>, <<"-b">>, OPENMW_OSG_BRANCH, c.git_url, CloneDest(c)>>
    ELSE <<<<"git">>, <<"clone">>, c.git_url, CloneDest(c)>>

\* the commands of _git_clean_src, in order, and the revision the last reset names
GitCleanCmds(c) ==
    <<Cmd(<<<<"git">>, <<"checkout">>, <<"--">>, <<".">>>>, 0, <<>>),
      Cmd(<<<<"git">>, <<"clean">>, <<"-df">>>>, 0, <<>>)>>
    \o (IF c.libname = OSG_OPENMW
        THEN <<Cmd(<<<<"git">>, <<"checkout">>, OPENMW_OSG_BRANCH>>, 0, <<>>),
               Cmd(<<<<"git">>, <<"reset">>, <<"--hard">>, <<"origin/">> \o OPENMW_OSG_BRANCH>>, 0, <<>>)>>
        ELSE <<>>)
    \o (IF c.libname = OSG
        THEN <<Cmd(<<<<"git">>, <<"checkout">>, UPSTREAM_OSG_VERSION>>, 0, <<>>),
               Cmd(<<<<"git">>, <<"reset">>, <<"--hard">>, <<"origin/">> \o UPSTREAM_OSG_VERSION>>, 0, <<>>)>>
        ELSE <<Cmd(<<<<"git">>, <<"checkout">>, c.version>>, 0, <<>>),
               Cmd(<<<<"git">>, <<"reset">>, <<"--hard">>, c.version>>, 0, <<>>)>>)

LastResetRev(c) ==
    LET cs == GitCleanCmds(c) IN cs[Len(cs)].argv[4]

CmakeArgv(c) ==
    <<<<"cmake">>, <<"-DCMAKE_INSTALL_PREFIX=">> \o c.install_prefix \o <<"/">> \o c.libname>>
    \o c.cmake_args \o <<c.cmake_target>>

\* what `make` leaves in the build directory: the project's binaries
BuildOutputs(c) ==
    IF CloneDest(c) = TES3MP
    THEN IF \E i \in 1..Len(c.cmake_args) : c.cmake_args[i] = <<"-DBUILD_OPENMW=OFF">>
         THEN {TES3MP_SERVER}
         ELSE {TES3MP, TES3MP_SERVER}
    ELSE {CloneDest(c)}

\* what `make install` puts below CMAKE_INSTALL_PREFIX
InstalledFile(c) ==
    CASE CloneDest(c) \in {OSG, OSG_OPENMW} -> <<"lib64", "/", "libosg.so">>
      [] CloneDest(c) = BULLET -> <<"lib", "/", "libLinearMath.so">>
      [] CloneDest(c) = UNSHIELD -> <<"bin", "/", "unshield">>
      [] CloneDest(c) = MYGUI -> <<"lib", "/", "libMyGUIEngine.so">>
      [] CloneDest(c) = OPENMW -> <<"bin", "/", "openmw">>
      [] OTHER -> <<"bin", "/", "tes3mp">>

\* the directory cmake was told to install to
InstallDest(log) ==
    LET i == CHOOSE i \in 1..Len(log) : IsCmake(log[i])
    IN SubSeq(log[i].argv[2], 2, Len(log[i].argv[2]))

MakeEffect(F, c) ==
    LET built == IF IsFile(F, HeadFile(RepoPath(c))) THEN Content(F, HeadFile(RepoPath(c))) ELSE <<"?">>
        outs == {[p |-> Join(BuildDir(c), b), c |-> built] : b \in BuildOutputs(c)}
    IN [F EXCEPT !.files = {f \in @ : \A o \in outs : o.p # f.p} \cup outs]

InstallEffect(F, c, log) ==
    LET dest == Resolve(F, InstallDest(log))
        src == Join(BuildDir(c), CHOOSE b \in BuildOutputs(c) : TRUE)
        built == IF IsFile(F, src) THEN Content(F, src) ELSE <<"?">>
    IN WriteFile(MkDir(F, dest), Join(dest, InstalledFile(c)), built)

\* lines 213-217: whether `make install` counts as failed
InstallFailed(verbose, rc, serr) == Truthy(CapturedErr(verbose, serr))

\* lines 201 and 209: cmake or make counts as failed
BuildFailedNever(rc) == FALSE
BuildFailedOnZero(rc) == rc = 0
BuildFailed(rc) == rc # 0

\* lines 151-156
BL_Enter ==
    /\ exit = "none" /\ bpc = "enter"
    /\ IF SkipBuild(fs, call)
       THEN /\ call' = [call EXCEPT !.clone_dest = CloneDest(call), !.found = TRUE]
            /\ bpc' = "ret"
       ELSE /\ call' = [call EXCEPT !.clone_dest = CloneDest(call)]
            /\ bpc' = IF ~Exists(fs, RepoPath(call)) THEN "clone" ELSE "clean"
    /\ UNCHANGED <<parsed, host, run, pc, exit, loc, pkgs, cmds, fs, cwd, remote, pk, ppc>>

\* lines 157-168
BL_Clone ==
    /\ exit = "none" /\ bpc = "clone"
    /\ IF ~IsDir(fs, call.src_dir)
       THEN Raise /\ UNCHANGED <<bpc, cmds, fs, cwd>>
       ELSE \E rc \in RCs :
              LET F1 == IF rc = 0
                        THEN GitClone(fs, RepoPath(call), call.git_url,
                                      IF Contains(CloneDest(call), OSG_OPENMW)
                                      THEN OPENMW_OSG_BRANCH ELSE <<>>, remote)
                        ELSE fs
              IN /\ cwd' = call.src_dir
                 /\ cmds' = Append(cmds, Cmd(CloneArgv(call), rc, <<>>))
                 /\ fs' = F1
                 /\ IF ~Exists(F1, Join(call.src_dir, call.libname))
                    THEN Die /\ UNCHANGED bpc
                    ELSE bpc' = "clean" /\ UNCHANGED exit
    /\ UNCHANGED <<parsed, host, run, pc, loc, pkgs, call, remote, pk, ppc>>

\* lines 170-174 and _git_clean_src (lines 112-149)
BL_Clean ==
    /\ exit = "none" /\ bpc = "clean"
    /\ LET inst == Join(call.install_prefix, call.libname)
           rm == call.force /\ Exists(fs, inst)
           F1 == IF rm THEN RmTree(fs, inst) ELSE fs
       IN IF (rm /\ IsLink(fs, inst)) \/ ~IsDir(F1, RepoPath(call))
          THEN Raise /\ UNCHANGED <<bpc, cmds, fs, cwd>>
          ELSE /\ cwd' = RepoPath(call)
               /\ cmds' = cmds \o GitCleanCmds(call)
               /\ fs' = GitReset(F1, RepoPath(call), LastResetRev(call))
               /\ bpc' = IF Truthy(call.patch) THEN "patch" ELSE "cmake"
               /\ UNCHANGED exit
    /\ UNCHANGED <<parsed, host, run, pc, loc, pkgs, call, remote, pk, ppc>>

\* lines 176-180
BL_Patch ==
    /\ exit = "none" /\ bpc = "patch"
    /\ \E rc \in RCs :
         /\ cmds' = Append(cmds, Cmd(<<<<"patch">>, <<"-p1">>, <<"<">>, call.patch>>, rc, <<>>))
         /\ IF rc > 0 THEN Die /\ UNCHANGED bpc ELSE bpc' = "cmake" /\ UNCHANGED exit
    /\ UNCHANGED <<parsed, host, run, pc, loc, pkgs, call, fs, cwd, remote, pk, ppc>>

\* lines 182-203
BL_Cmake ==
    /\ exit = "none" /\ bpc = "cmake"
    /\ IF ~call.cmake
       THEN /\ cwd' = RepoPath(call) /\ bpc' = "make"
            /\ UNCHANGED <<exit, cmds, fs>>
       ELSE \E rc \in RCs :
              /\ fs' = MkDir(RmTree(fs, BuildDir(call)), BuildDir(call))
              /\ cwd' = BuildDir(call)
              /\ cmds' = Append(cmds, Cmd(CmakeArgv(call), rc, <<>>))
              /\ IF BuildFailed(rc) THEN Die /\ UNCHANGED bpc ELSE bpc' = "make" /\ UNCHANGED exit
    /\ UNCHANGED <<parsed, host, run, pc, loc, pkgs, call, remote, pk, ppc>>

\* lines 205-211
BL_Make ==
    /\ exit = "none" /\ bpc = "make"
    /\ \E rc \in RCs :
         /\ cmds' = Append(cmds, Cmd(<<<<"make">>, <<"-j">> \o call.cpus>>, rc, <<>>))
         /\ fs' = IF rc = 0 THEN MakeEffect(fs, call) ELSE fs
         /\ IF BuildFailed(rc)
            THEN Die /\ UNCHANGED bpc
            ELSE bpc' = (IF call.make_install THEN "install" ELSE "ret") /\ UNCHANGED exit
    /\ UNCHANGED <<parsed, host, run, pc, loc, pkgs, call, cwd, remote, pk, ppc>>

\* lines 213-219
BL_Install ==
    /\ exit = "none" /\ bpc = "install"
    /\ \E rc \in RCs, serr \in StdErrs :
         /\ cmds' = Append(cmds, Cmd(<<<<"make">>, <<"install">>>>, rc, serr))
         /\ call' = [call EXCEPT !.install_rc = rc]
         /\ fs' = IF rc = 0 /\ call.cmake THEN InstallEffect(fs, call, cmds) ELSE fs
         /\ IF InstallFailed(call.verbose, rc, serr)
            THEN Die /\ UNCHANGED bpc
            ELSE bpc' = "ret" /\ UNCHANGED exit
    /\ UNCHANGED <<parsed, host, run, pc, loc, pkgs, cwd, remote, pk, ppc>>

BuildLibrary == BL_Enter \/ BL_Clone \/ BL_Clean \/ BL_Patch \/ BL_Cmake \/ BL_Make \/ BL_Install

-----------------------------------------------------------------------------
(* The command line (parse_argv) and main's flag handling (lines 749-909). *)
(* A string option that was not given is <<>>.                             *)

DefaultParsed ==
    [force_all |-> FALSE, force_all_tes3mp |-> FALSE,
     build_bullet |-> FALSE, build_mygui |-> FALSE, build_upstream_osg |-> FALSE,
     build_unshield |-> FALSE, force_bullet |-> FALSE, force_mygui |-> FALSE,
     force_openmw |-> FALSE, force_osg |-> FALSE, force_tes3mp |-> FALSE,
     force_unshield |-> FALSE, force_pkg |-> FALSE, system_osg |-> FALSE,
     install_prefix |-> <<>>, jobs |-> <<>>, make_install |-> FALSE, make_pkg |-> FALSE,
     no_pull |-> FALSE, out |-> <<>>, patch |-> <<>>, skip_install_pkgs |-> FALSE,
     src_dir |-> <<>>, tes3mp |-> FALSE, tes3mp_server_only |-> FALSE, verbose |-> FALSE,
     with_corescripts |-> FALSE, with_essimporter |-> FALSE, without_cs |-> FALSE,
     without_iniimporter |-> FALSE, without_launcher |-> FALSE, without_wizard |-> FALSE,
     branch |-> <<>>, sha |-> <<>>, tag |-> <<>>]

\* parse_argv, lines 591-596: --sha, --tag and --branch form a mutually exclusive
\* group; argparse ends the process with status 2 when more than one is given
ParseAccepts(p) == Cardinality({k \in {"sha", "tag", "branch"} : Truthy(p[k])}) <= 1

\* "/" in branch (line 899); the token "origin/" ends in a slash
HasSlash(s) == \E i \in 1..Len(s) : s[i] \in {"/", "origin/"}

\* lines 897-909
RevOfAlwaysPrefixed(p) ==
    IF Truthy(p.branch) THEN <<"origin/">> \o p.branch
    ELSE IF Truthy(p.sha) THEN p.sha
    ELSE IF Truthy(p.tag) THEN p.tag
    ELSE <<"origin/">> \o <<"master">>
RevOf(p) ==
    IF Truthy(p.branch)
    THEN IF ~HasSlash(p.branch) THEN <<"origin/">> \o p.branch ELSE p.branch
    ELSE IF Truthy(p.sha) THEN p.sha
    ELSE IF Truthy(p.tag) THEN p.tag
    ELSE <<"origin/">> \o <<"master">>

\* main's locals after the flags are read (lines 749-909)
Locals(p) ==
    [cpus |-> IF Truthy(p.jobs) THEN p.jobs ELSE CPUS,
     build_bullet |-> p.build_bullet,
     build_mygui |-> p.build_mygui,
     build_upstream_osg |-> p.build_upstream_osg,
     build_unshield |-> p.build_unshield,
     force_bullet |-> p.force_all \/ p.force_all_tes3mp \/ p.force_bullet,
     force_mygui |-> p.force_all \/ p.force_all_tes3mp \/ p.force_mygui,
     force_openmw |-> p.force_all \/ p.force_openmw,
     force_osg |-> p.force_all \/ p.force_all_tes3mp \/ p.force_osg,
     force_tes3mp |-> p.force_all_tes3mp \/ p.force_tes3mp,
     force_unshield |-> p.force_all \/ p.force_all_tes3mp \/ p.force_unshield,
     force_pkg |-> p.force_all \/ p.force_all_tes3mp \/ p.force_pkg,
     install_prefix |-> IF Truthy(p.install_prefix) THEN p.install_prefix ELSE INSTALL_PREFIX,
     system_osg |-> FALSE,
     make_install |-> p.make_install,
     make_pkg |-> p.make_pkg,
     out_dir |-> IF Truthy(p.out) THEN p.out ELSE OUT_DIR,
     patch |-> p.patch,
     pull |-> ~p.no_pull,
     skip_install_pkgs |-> p.skip_install_pkgs,
     src_dir |-> IF Truthy(p.src_dir) THEN p.src_dir ELSE SRC_DIR,
     tes3mp |-> p.tes3mp,
     tes3mp_serveronly |-> p.tes3mp_server_only,
     verbose |-> p.verbose,
     with_corescripts |-> p.with_corescripts,
     with_essimporter |-> p.with_essimporter,
     without_cs |-> p.without_cs,
     without_iniimporter |-> p.without_iniimporter,
     without_launcher |-> p.without_launcher,
     without_wizard |-> p.without_wizard,
     rev |-> RevOf(p)]

-----------------------------------------------------------------------------
(* The build_library calls of main *)

InheritEnv == [inherit |-> TRUE, vars |-> {}]

OSG_CMAKE_ARGS ==
    <<<<"-DBUILD_OSG_PLUGINS_BY_DEFAULT=0">>, <<"-DBUILD_OSG_PLUGIN_OSG=1">>,
      <<"-DBUILD_OSG_PLUGIN_DDS=1">>, <<"-DBUILD_OSG_PLUGIN_TGA=1">>,
      <<"-DBUILD_OSG_PLUGIN_BMP=1">>, <<"-DBUILD_OSG_PLUGIN_JPEG=1">>,
      <<"-DBUILD_OSG_PLUGIN_PNG=1">>, <<"-DBUILD_OSG_DEPRECATED_SERIALIZERS=0">>>>

\* lines 941-960
CallOsg(F, d, L) ==
    BuildCall(F, d, L.cpus, OSG, Join(L.install_prefix, <<"osg", "/", "lib64", "/", "libosg.so">>),
              <<>>, OSG_CMAKE_ARGS, InheritEnv, L.force_osg, L.install_prefix, OSG_URL,
              TRUE, <<>>, L.src_dir, L.verbose, <<"master">>)

\* lines 965-984
CallOsgOpenmw(F, d, L) ==
    BuildCall(F, d, L.cpus, OSG_OPENMW,
              Join(L.install_prefix, OSG_OPENMW \o <<"/", "lib64", "/", "libosg.so">>),
              <<>>, OSG_CMAKE_ARGS, InheritEnv, L.force_osg, L.install_prefix, OSG_OPENMW_URL,
              TRUE, <<>>, L.src_dir, L.verbose, <<"master">>)

\* lines 988-1008
CallBullet(F, d, L) ==
    BuildCall(F, d, L.cpus, BULLET,
              Join(L.install_prefix, <<"bullet", "/", "lib", "/", "libLinearMath.so">>),
              <<>>,
              <<<<"-DBUILD_CPU_DEMOS=false">>, <<"-DBUILD_OPENGL3_DEMOS=false">>,
                <<"-DBUILD_BULLET2_DEMOS=false">>, <<"-DBUILD_UNIT_TESTS=false">>,
                <<"-DINSTALL_LIBS=on">>, <<"-DBUILD_SHARED_LIBS=on">>>>,
              InheritEnv, L.force_bullet, L.install_prefix, BULLET_URL,
              TRUE, <<>>, L.src_dir, L.verbose, BULLET_VERSION)

\* lines 1012-1022
CallUnshield(F, d, L) ==
    BuildCall(F, d, L.cpus, UNSHIELD,
              Join(L.install_prefix, <<"unshield", "/", "bin", "/", "unshield">>),
              <<>>, <<>>, InheritEnv, L.force_unshield, L.install_prefix, UNSHIELD_URL,
              TRUE, <<>>, L.src_dir, L.verbose, UNSHIELD_VERSION)

\* lines 1030-1048
CallMygui(F, d, L) ==
    BuildCall(F, d, L.cpus, MYGUI,
              Join(L.install_prefix, <<"mygui", "/", "lib", "/", "libMyGUIEngine.so">>),
              <<>>,
              <<<<"-DMYGUI_BUILD_TOOLS=OFF">>, <<"-DMYGUI_RENDERSYSTEM=1">>,
                <<"-DMYGUI_BUILD_DEMOS=OFF">>, <<"-DMYGUI_BUILD_PLUGINS=OFF">>>>,
              InheritEnv, L.force_mygui, L.install_prefix, MYGUI_URL,
              TRUE, <<>>, L.src_dir, L.verbose, MYGUI_VERSION)

\* format_openmw_cmake_args (lines 222-258) and the same list at lines 1254-1283
OsgLibs ==
    <<<<"OPENTHREADS", "libOpenThreads.so">>, <<"OSG", "libosg.so">>,
      <<"OSGANIMATION", "libosgAnimation.so">>, <<"OSGDB", "libosgDB.so">>,
      <<"OSGFX", "libosgFX.so">>, <<"OSGGA", "libosgGA.so">>,
      <<"OSGPARTICLE", "libosgParticle.so">>, <<"OSGTEXT", "libosgText.so">>,
      <<"OSGUTIL", "libosgUtil.so">>, <<"OSGVIEWER", "libosgViewer.so">>>>

OsgArgs(osg_path) ==
    [i \in 1..(2 * Len(OsgLibs)) |->
        LET l == OsgLibs[(i + 1) \div 2]
        IN IF i % 2 = 1
           THEN <<"-D", l[1], "_INCLUDE_DIR=">> \o osg_path \o <<"/include">>
           ELSE <<"-D", l[1], "_LIBRARY=">> \o osg_path \o <<"/lib64/", l[2]>>]

BulletArgs(bullet_path) ==
    <<<<"-DBullet_INCLUDE_DIR=">> \o bullet_path \o <<"/include/bullet">>,
      <<"-DBullet_BulletCollision_LIBRARY=">> \o bullet_path \o <<"/lib/libBulletCollision.so">>,
      <<"-DBullet_LinearMath_LIBRARY=">> \o bullet_path \o <<"/lib/libLinearMath.so">>>>

format_openmw_cmake_args(bullet_path, osg_path, use_bullet) ==
    (IF Truthy(osg_path) THEN OsgArgs(osg_path) ELSE <<>>)
    \o (IF use_bullet THEN BulletArgs(bullet_path) ELSE <<>>)

\* lines 1062-1074 and 1209-1221: CMAKE_PREFIX_PATH
PrefixPath(L) ==
    (IF L.system_osg THEN <<>> ELSE L.install_prefix \o <<"/">> \o OSG_OPENMW)
    \o (IF L.build_bullet \/ L.force_bullet THEN <<":">> \o L.install_prefix \o <<"/", "bullet">> ELSE <<>>)
    \o (IF L.build_mygui \/ L.force_mygui THEN <<":">> \o L.install_prefix \o <<"/", "mygui">> ELSE <<>>)
    \o (IF L.build_unshield \/ L.force_unshield THEN <<":">> \o L.install_prefix \o <<"/", "unshield">> ELSE <<>>)

SetEnv(env, k, v) == {e \in env : e.k # k} \cup {[k |-> k, v |-> v]}

\* lines 1060-1075
Tes3mpEnv(L, environ, forge) ==
    [inherit |-> FALSE,
     vars |-> IF forge THEN environ
              ELSE SetEnv(SetEnv(environ, "CMAKE_PREFIX_PATH", PrefixPath(L)),
                          "LDFLAGS", <<"-llzma -lz -lbz2">>)]

\* lines 1077-1123
Tes3mpCmakeArgs(L, forge) ==
    <<<<"-Wno-dev">>, <<"-DCMAKE_BUILD_TYPE=Release">>, <<"-DBUILD_OPENCS=OFF">>,
      <<"-DCMAKE_CXX_STANDARD=14">>, <<"-DCMAKE_CXX_FLAGS=\"-std=c++14\"">>,
      <<"-DDESIRED_QT_VERSION=5">>>>
    \o (IF L.tes3mp_serveronly
        THEN <<<<"-DBUILD_OPENMW_MP=ON">>, <<"-DBUILD_BROWSER=OFF">>, <<"-DBUILD_BSATOOL=OFF">>,
               <<"-DBUILD_ESMTOOL=OFF">>, <<"-DBUILD_ESSIMPORTER=OFF">>, <<"-DBUILD_LAUNCHER=OFF">>,
               <<"-DBUILD_MWINIIMPORTER=OFF">>, <<"-DBUILD_MYGUI_PLUGIN=OFF">>,
               <<"-DBUILD_OPENMW=OFF">>, <<"-DBUILD_WIZARD=OFF">>>>
        ELSE format_openmw_cmake_args(
                 Join(INSTALL_PREFIX, BULLET),
                 IF forge THEN <<"/usr/local">>
                 ELSE IF L.system_osg THEN PyNone ELSE Join(INSTALL_PREFIX, OSG_OPENMW),
                 L.build_bullet \/ L.force_bullet))

\* lines 1125-1140
CallTes3mp(F, d, L, name, env, forge) ==
    BuildCall(F, d, L.cpus, name,
              Join(SRC_DIR, TES3MP \o <<"/", "build", "/">>
                            \o (IF L.tes3mp_serveronly THEN TES3MP_SERVER ELSE TES3MP)),
              TES3MP, Tes3mpCmakeArgs(L, forge), env, L.force_tes3mp, L.install_prefix,
              TES3MP_URL, L.make_install, L.patch, L.src_dir, L.verbose, L.rev)

\* lines 1207-1221, 1237-1240
OpenmwEnv(L, environ, distro) ==
    [inherit |-> FALSE,
     vars |-> SetEnv(SetEnv(environ, "CMAKE_PREFIX_PATH", PrefixPath(L)), "LDFLAGS",
                     IF (Truthy(distro) /\ Contains(distro, <<"U", "b", "u", "n", "t", "u">>))
                        \/ Contains(distro, <<"D", "e", "b", "i", "a", "n">>)
                     THEN <<"-lz -lbz2">> ELSE <<"-llzma -lz -lbz2">>)]

\* lines 1242-1307
OpenmwCmakeArgs(L) ==
    <<<<"-DBOOST_ROOT=/usr/include/boost">>, <<"-DCMAKE_BUILD_TYPE=MinSizeRel">>,
      <<"-DDESIRED_QT_VERSION=5">>>>
    \o (IF L.system_osg THEN <<>> ELSE OsgArgs(Join(INSTALL_PREFIX, OSG_OPENMW)))
    \o (IF L.build_bullet \/ L.force_bullet THEN BulletArgs(Join(INSTALL_PREFIX, BULLET)) ELSE <<>>)
    \o (IF ~L.with_essimporter THEN <<<<"-DBUILD_ESSIMPORTER=no">>>> ELSE <<>>)
    \o (IF L.without_cs THEN <<<<"-DBUILD_OPENCS=no">>>> ELSE <<>>)
    \o (IF L.without_iniimporter THEN <<<<"-DBUILD_MWINIIMPORTER=no">>>> ELSE <<>>)
    \o (IF L.without_launcher THEN <<<<"-DBUILD_LAUNCHER=no">>>> ELSE <<>>)
    \o (IF L.without_wizard THEN <<<<"-DBUILD_WIZARD=no">>>> ELSE <<>>)

\* lines 1311-1325
CallOpenmw(F, d, L, name, env) ==
    BuildCall(F, d, L.cpus, name,
              Join(L.install_prefix, name \o <<"/", "bin", "/", "openmw">>),
              OPENMW, OpenmwCmakeArgs(L), env, L.force_openmw, L.install_prefix,
              OPENMW_URL, TRUE, L.patch, L.src_dir, L.verbose, L.rev)

-----------------------------------------------------------------------------
(* The module-level package lists (lines 30-34), as the module defines     *)
(* them when the script starts.                                            *)

ARCH_PKGS == <<>>
DEBIAN_PKGS ==
    <<<<"git">>, <<"libopenal-dev">>, <<"libbullet-dev">>, <<"libsdl2-dev">>, <<"qt5-default">>, <<"libfreetype6-dev">>, <<"libboost-filesystem-dev">>, <<"libboost1.71-dev">>, <<"libboost-thread-dev">>, <<"libboost-program-options-dev">>, <<"libboost-system-dev">>, <<"libavcodec-dev">>, <<"libavformat-dev">>, <<"libavutil-dev">>, <<"libswscale-dev">>, <<"cmake">>, <<"build-essential">>, <<"libqt5opengl5-dev">>>>
REDHAT_PKGS ==
    <<<<"openal-devel">>, <<"SDL2-devel">>, <<"qt5-devel">>, <<"boost-filesystem">>, <<"git">>, <<"boost-thread">>, <<"boost-program-options">>, <<"boost-system">>, <<"ffmpeg-devel">>, <<"ffmpeg-libs">>, <<"gcc-c++">>, <<"tinyxml-devel">>, <<"cmake">>>>
UBUNTU_PKGS == <<<<"libfreetype6-dev">>, <<"libbz2-dev">>, <<"liblzma-dev">>>> \o DEBIAN_PKGS
VOID_PKGS ==
    <<<<"SDL2-devel">>, <<"boost-devel">>, <<"bullet-devel">>, <<"cmake">>, <<"ffmpeg-devel">>, <<"freetype-devel">>, <<"gcc">>, <<"git">>, <<"libXt-devel">>, <<"libavformat">>, <<"libavutil">>, <<"libmygui-devel">>, <<"libopenal-devel">>, <<"libopenjpeg2-devel">>, <<"libswresample">>, <<"libswscale">>, <<"libtxc_liblzma-devel">>, <<"libunshield-devel">>, <<"python-devel">>, <<"python3-devel">>, <<"qt5-devel">>, <<"zlib-devel">>>>

InitPkgs == [arch |-> ARCH_PKGS, debian |-> DEBIAN_PKGS, redhat |-> REDHAT_PKGS,
             ubuntu |-> UBUNTU_PKGS, void |-> VOID_PKGS]

-----------------------------------------------------------------------------
(* get_distro (lines 261-263) and the parse of its output (line 923).      *)
(* Distribution strings are sequences of characters.                       *)

UpperAlpha == <<"A", "B", "C", "D", "E", "F", "G", "H", "I", "J", "K", "L", "M",
                "N", "O", "P", "Q", "R", "S", "T", "U", "V", "W", "X", "Y", "Z">>
LowerAlpha == <<"a", "b", "c", "d", "e", "f", "g", "h", "i", "j", "k", "l", "m",
                "n", "o", "p", "q", "r", "s", "t", "u", "v", "w", "x", "y", "z">>

LowerChar(ch) ==
    IF \E i \in 1..Len(UpperAlpha) : UpperAlpha[i] = ch
    THEN LowerAlpha[CHOOSE i \in 1..Len(UpperAlpha) : UpperAlpha[i] = ch]
    ELSE ch

\* str.lower()
Lower(str) == [i \in 1..Len(str) |-> LowerChar(str[i])]

Whitespace == {" ", "\t", "\n"}

RECURSIVE LStrip(_)
LStrip(str) ==
    IF str # <<>> /\ str[1] \in Whitespace THEN LStrip(Tail(str)) ELSE str

RECURSIVE RStrip(_)
RStrip(str) ==
    IF str # <<>> /\ str[Len(str)] \in Whitespace
    THEN RStrip(SubSeq(str, 1, Len(str) - 1)) ELSE str

\* str.strip()
Strip(str) == RStrip(LStrip(str))

Colons(str) == {i \in 1..Len(str) : str[i] = ":"}
Min(S) == CHOOSE x \in S : \A y \in S : x <= y

\* out.decode().split(":")[1].strip(); there is no [1] when the output holds no colon
HasField1(out) == Colons(out) # {}
ParseDistro(out) ==
    LET first == Min(Colons(out))
        later == {i \in Colons(out) : i > first}
        last == IF later = {} THEN Len(out) ELSE Min(later) - 1
    IN Strip(SubSeq(out, first + 1, last))

Chars_Description == <<"D", "e", "s", "c", "r", "i", "p", "t", "i", "o", "n", ":", "\t">>
\* what `lsb_release -d` prints on a machine whose description is desc
LsbOutput(desc) == Chars_Description \o desc \o <<"\n">>

LsbCmd == Cmd(<<<<"lsb_release">>, <<"-d">>>>, 0, <<>>)

-----------------------------------------------------------------------------
(* install_packages (lines 518-582) *)

\* the branch of the if/elif chain the distribution string selects
DistroFamily(distro) ==
    LET d == Lower(distro) IN
    CASE Contains(d, <<"v", "o", "i", "d">>) -> "void"
      [] Contains(d, <<"a", "r", "c", "h">>) -> "arch"
      [] Contains(d, <<"d", "e", "b", "i", "a", "n">>) -> "debian"
      [] Contains(d, <<"d", "e", "v", "u", "a", "n">>) -> "devuan"
      [] Contains(d, <<"u", "b", "u", "n", "t", "u">>) \/ Contains(d, <<"m", "i", "n", "t">>) -> "ubuntu"
      [] Contains(d, <<"f", "e", "d", "o", "r", "a">>) -> "fedora"
      [] OTHER -> "unsupported"

Sudo == <<<<"sudo">>>>
AptInstall == <<<<"apt-get">>, <<"install">>, <<"-y">>, <<"--force-yes">>>>

\* the argument vectors install_packages executes, in order
SudoFedora(uid) == ~(uid > 0)
SudoOther(uid) == uid > 0

PackagesOf(family, P) ==
    CASE family = "void" -> P.void
      [] family = "arch" -> P.arch
      [] family \in {"debian", "devuan"} -> P.debian
      [] family = "ubuntu" -> P.ubuntu
      [] family = "fedora" -> P.redhat
      [] OTHER -> <<>>

InstallArgvs(distro, P, uid) ==
    LET family == DistroFamily(distro)
        s == IF SudoOther(uid) THEN Sudo ELSE <<>>
        sf == IF SudoFedora(uid) THEN Sudo ELSE <<>>
    IN CASE family = "void" -> <<s \o <<<<"xbps-install">>, <<"--yes">>>> \o PackagesOf(family, P)>>
         [] family = "arch" -> <<s \o <<<<"pacman">>, <<"-sy">>>> \o PackagesOf(family, P)>>
         [] family \in {"debian", "devuan", "ubuntu"} -> <<s \o AptInstall \o PackagesOf(family, P)>>
         [] family = "fedora" ->
              <<sf \o <<<<"dnf">>, <<"groupinstall">>, <<"-y">>, <<"development-tools">>>>,
                sf \o <<<<"dnf">>, <<"install">>, <<"-y">>>> \o PackagesOf(family, P)>>
         [] OTHER -> <<>>

\* lines 867-880: what --tes3mp and --tes3mp-server-only each do to the lists
AppendLuaNowhere(P) == P
AppendLua(P) ==
    [P EXCEPT !.debian = Append(@, <<"libluajit-5.1-dev">>),
              !.ubuntu = Append(@, <<"libluajit-5.1-dev">>),
              !.void = Append(@, <<"LuaJIT-devel">>)]

PkgsAfterFlags(P, p) ==
    LET P1 == IF p.tes3mp THEN AppendLua(P) ELSE P
    IN IF p.tes3mp_server_only THEN AppendLua(P1) ELSE P1

-----------------------------------------------------------------------------
(* get_repo_sha (lines 266-281).  fetched tells whether git fetch reached  *)
(* the remote.  The result: the file system, the working directory, the    *)
(* commands executed and the value returned.                               *)

\* lines 273-275: git fetch --all, only if pull
FetchCmdsAlways(pull, fetched) ==
    <<Cmd(<<<<"git">>, <<"fetch">>, <<"--all">>>>, IF fetched THEN 0 ELSE 1, <<>>)>>
FetchCmds(pull, fetched) ==
    IF pull
    THEN <<Cmd(<<<<"git">>, <<"fetch">>, <<"--all">>>>, IF fetched THEN 0 ELSE 1, <<>>)>>
    ELSE <<>>

GetRepoSha(F, d, src_dir, repo, rev, pull, fetched, rem) ==
    LET path == Join(src_dir, repo) IN
    IF ~IsDir(F, path)
    THEN [fs |-> F, cwd |-> d, cmds |-> <<>>, ret |-> PyFalse]
    ELSE LET F1 == IF pull /\ fetched THEN WriteFile(F, TipFile(path), <<rem>>) ELSE F
             F2 == GitReset(F1, path, rev)
         IN [fs |-> F2, cwd |-> path,
             cmds |-> FetchCmds(pull, fetched)
                      \o <<Cmd(<<<<"git">>, <<"checkout">>, rev>>, 0, <<>>),
                           Cmd(<<<<"git">>, <<"reset">>, <<"--hard">>, rev>>, 0, <<>>),
                           Cmd(<<<<"git">>, <<"rev-parse">>, <<"--short">>, <<"HEAD">>>>, 0, <<>>)>>,
             ret |-> ShortHash(Content(F2, HeadFile(path)))]

-----------------------------------------------------------------------------
(* The versioned install directory and its symlink (lines 1147-1153 and    *)
(* 1329-1334).  An operation Python raises on gives ok = FALSE.            *)

LExists(F, p) == p \in F.dirs \/ (\E f \in F.files : f.p = p) \/ IsLink(F, p)

\* os.rename of a directory or symlink
Rename(F, old, new) ==
    LET mv(q) == IF UnderPath(old, q) THEN new \o SubSeq(q, Len(old) + 1, Len(q)) ELSE q
    IN [dirs |-> {mv(q) : q \in F.dirs},
        files |-> {[p |-> mv(f.p), c |-> f.c] : f \in F.files},
        links |-> {[p |-> mv(l.p), t |-> l.t] : l \in F.links}]

\* the project name carries the hash already (str(sha) in name)
NameHasSha(name, sha) == Contains(name, PyStr(sha))

\* if str(sha) not in name: os.rename(base, base-sha)
\* if os.path.islink(base): os.remove(base)
\* os.symlink(base-sha, base)
LinkTargetBare(base, sha) == base
LinkTarget(base, sha) == base \o <<"-">> \o PyStr(sha)

LinkInstall(F, prefix, base, name, sha) ==
    LET versioned == base \o <<"-">> \o PyStr(sha)
        needRename == ~NameHasSha(name, sha)
        renameOk == LExists(F, Join(prefix, base)) /\ ~LExists(F, Join(prefix, versioned))
        F1 == IF needRename /\ renameOk THEN Rename(F, Join(prefix, base), Join(prefix, versioned)) ELSE F
        F2 == [F1 EXCEPT !.links = {l \in @ : l.p # Join(prefix, base)}]
    IN IF needRename /\ ~renameOk THEN [fs |-> F, ok |-> FALSE]
       ELSE IF ~Truthy(sha) THEN [fs |-> F2, ok |-> FALSE]
       ELSE IF LExists(F2, Join(prefix, base)) THEN [fs |-> F2, ok |-> FALSE]
       ELSE [fs |-> [F2 EXCEPT !.links = @ \cup {[p |-> Join(prefix, base), t |-> LinkTarget(base, sha)]}],
             ok |-> TRUE]

-----------------------------------------------------------------------------
(* Starting states shared by the specifications *)

PATCH_FILE == <<"/home/user/fix.patch">>

\* the directory the script is started in
START_DIR == <<"/home/user">>

DefaultHost == [uid |-> 1000, lsb |-> "ok", desc |-> <<"U", "b", "u", "n", "t", "u">>, forge |-> FALSE]

Environ(h) == IF h.forge THEN {[k |-> "TES3MP_FORGE", v |-> <<"1">>]} ELSE {}

InitLoc(h) == [distro |-> PyNone, name |-> <<>>, sha |-> PyNone, environ |-> Environ(h), steps |-> <<>>]

NoPk == [pkgname |-> <<>>]

\* a machine on which the script never ran
FreshFs == [dirs |-> {OPT}, files |-> {[p |-> PATCH_FILE, c |-> <<"diff">>]}, links |-> {}]

\* the three ensure_dir calls of main done (lines 933-935)
BaseFs == [FreshFs EXCEPT !.dirs = {OPT, INSTALL_PREFIX, SRC_DIR}]

-----------------------------------------------------------------------------
(* SpecBuild: one build_library call, as main makes it, from any state of  *)
(* the source and install directories.                                     *)

BuildSites == {"osg", "osg-openmw", "bullet", "unshield", "mygui", "openmw", "tes3mp"}

BuildParsedSet ==
    {[DefaultParsed EXCEPT !.force_all = f, !.force_all_tes3mp = f, !.verbose = v,
                           !.make_install = mi, !.patch = pt, !.tag = <<"t2">>,
                           !.tes3mp_server_only = so] :
        f \in BOOLEAN, v \in BOOLEAN, mi \in BOOLEAN, pt \in {<<>>, PATCH_FILE},
        so \in BOOLEAN}

\* the call main makes at `site`; hasSrc tells whether get_repo_sha found a checkout
SiteCall(site, F, d, L, hasSrc) ==
    CASE site = "osg" -> CallOsg(F, d, L)
      [] site = "osg-openmw" -> CallOsgOpenmw(F, d, L)
      [] site = "bullet" -> CallBullet(F, d, L)
      [] site = "unshield" -> CallUnshield(F, d, L)
      [] site = "mygui" -> CallMygui(F, d, L)
      [] site = "openmw" ->
           CallOpenmw(F, d, L, IF hasSrc THEN <<"openmw", "-", "h1">> ELSE OPENMW,
                      OpenmwEnv(L, {}, <<"U", "b", "u", "n", "t", "u">>))
      [] OTHER ->
           CallTes3mp(F, d, L, IF hasSrc THEN <<"tes3mp", "-", "h1">> ELSE TES3MP,
                      Tes3mpEnv(L, {}, FALSE), FALSE)

\* the file system with a checkout of the call's repository at commit c1
WithSrc(F, c) ==
    WriteFile(GitClone(F, RepoPath(c), c.git_url, <<>>, "c1"), HeadFile(RepoPath(c)), <<"c1">>)

\* the file system with the call's check file, as an earlier build left it
WithCheckFile(F, c) ==
    WriteFile(MkDir(F, Join(c.install_prefix, c.libname)), c.check_file, <<"c1">>)

InitBuild ==
    \E p \in BuildParsedSet, site \in BuildSites, hasSrc \in BOOLEAN, hasCheck \in BOOLEAN :
        LET L == Locals(p)
            c0 == SiteCall(site, BaseFs, INSTALL_PREFIX, L, hasSrc)
            F1 == IF hasSrc THEN WithSrc(BaseFs, c0) ELSE BaseFs
            F2 == IF hasCheck THEN WithCheckFile(F1, c0) ELSE F1
        IN /\ (site = "tes3mp" /\ hasCheck => hasSrc)
           /\ parsed = p
           /\ host = DefaultHost
           /\ run = 1
           /\ pc = "build"
           /\ exit = "none"
           /\ loc = InitLoc(DefaultHost)
           /\ pkgs = InitPkgs
           /\ call = SiteCall(site, F2, INSTALL_PREFIX, L, hasSrc)
           /\ bpc = "enter"
           /\ cmds = <<>>
           /\ fs = F2
           /\ cwd = INSTALL_PREFIX
           /\ remote = "c1"
           /\ pk = NoPk
           /\ ppc = "idle"

NextBuild == BuildLibrary

SpecBuild == InitBuild /\ [][NextBuild]_vars

-----------------------------------------------------------------------------
(* make_portable_package (lines 284-515).  pk holds the arguments, the     *)
(* staging directory and the file system the call started from.            *)

PkgCall(F, pkgname, distro, force, out_dir, serveronly) ==
    [pkgname |-> pkgname, distro |-> distro, force |-> force, out_dir |-> out_dir,
     serveronly |-> serveronly, entry |-> [fs |-> F]]

PkgPath(k) == Join(k.out_dir, k.pkgname \o <<".tar.bz2">>)
\* tempfile.mkdtemp(suffix=pkgname)
TmpDir(k) == Join(<<"/tmp">>, <<"tmp">> \o k.pkgname)
PkgDir(k) == Join(TmpDir(k), k.pkgname)

\* line 293: the archive is there and may not be replaced
RefuseOverwriteNever(F, k) == FALSE
RefuseOverwrite(F, k) == Exists(F, PkgPath(k)) /\ ~k.force

\* lines 334-415: some branch assigns system_libs
SystemLibsDefined(distro, forge) ==
    \/ forge
    \/ Contains(distro, <<"V", "o", "i", "d">>)
    \/ Contains(distro, <<"U", "b", "u", "n", "t", "u">>)
    \/ Contains(distro, <<"D", "e", "b", "i", "a", "n">>)

BuiltIn(F, lib, out) == IsFile(F, Join(SRC_DIR, lib \o <<"/", "build", "/">> \o out))

\* lines 308-332, 417-464, 486-503: the files copied from the source tree exist
PkgFilesPresent(F, serveronly) ==
    /\ BuiltIn(F, TES3MP, TES3MP_SERVER)
    /\ BuiltIn(F, BULLET, BULLET) /\ BuiltIn(F, MYGUI, MYGUI) /\ BuiltIn(F, UNSHIELD, UNSHIELD)
    /\ (~serveronly => BuiltIn(F, TES3MP, TES3MP) /\ BuiltIn(F, OSG_OPENMW, OSG_OPENMW))

\* lines 288-306
P_Enter ==
    /\ exit = "none" /\ ppc = "enter"
    /\ LET F1 == IF ~IsDir(fs, pk.out_dir) THEN MkDir(fs, pk.out_dir) ELSE fs
       IN IF RefuseOverwrite(F1, pk)
          THEN Die /\ UNCHANGED <<ppc, fs>>
          ELSE /\ fs' = MkDir(MkDir(RemoveFile(F1, PkgPath(pk)), TmpDir(pk)), PkgDir(pk))
               /\ ppc' = "copy"
               /\ UNCHANGED exit
    /\ UNCHANGED <<parsed, host, run, pc, loc, pkgs, call, bpc, cmds, cwd, remote, pk>>

\* lines 308-503
P_Copy ==
    /\ exit = "none" /\ ppc = "copy"
    /\ \E hostLibs \in BOOLEAN :
         IF /\ PkgFilesPresent(fs, pk.serveronly)
            /\ (host.forge \/ pk.distro # PyNone)
            /\ SystemLibsDefined(pk.distro, host.forge)
            /\ hostLibs
         THEN /\ fs' = WriteFile(fs, Join(PkgDir(pk), <<"lib">>), <<"staged">>)
              /\ ppc' = "tar"
              /\ UNCHANGED exit
         ELSE Raise /\ UNCHANGED <<ppc, fs>>
    /\ UNCHANGED <<parsed, host, run, pc, loc, pkgs, call, bpc, cmds, cwd, remote, pk>>

\* lines 505-515
P_Tar ==
    /\ exit = "none" /\ ppc = "tar"
    /\ fs' = RmTree(WriteFile(fs, PkgPath(pk), <<"archive of ">> \o pk.pkgname), TmpDir(pk))
    /\ ppc' = "ret"
    /\ UNCHANGED <<parsed, host, run, pc, exit, loc, pkgs, call, bpc, cmds, cwd, remote, pk>>

Packager == P_Enter \/ P_Copy \/ P_Tar

-----------------------------------------------------------------------------
(* main (lines 745-1343).  pc names the next statement of main; while a    *)
(* build_library or make_portable_package call runs, pc is where main      *)
(* goes on after it.                                                       *)

AtMain(at) == exit = "none" /\ pc = at /\ bpc = "idle" /\ ppc = "idle"

\* any of the --force-* flags (lines 617-646)
ForceFlag(p) ==
    \/ p.force_all \/ p.force_all_tes3mp \/ p.force_bullet \/ p.force_mygui \/ p.force_openmw
    \/ p.force_osg \/ p.force_tes3mp \/ p.force_unshield \/ p.force_pkg

\* lines 852-857: a patch was given and os.path.isfile says no
PatchMissingUnlessForced(F, p) == Truthy(p.patch) /\ ~IsFile(F, p.patch) /\ ~ForceFlag(p)
PatchMissing(F, p) == Truthy(p.patch) /\ ~IsFile(F, p.patch)

\* lines 768 and 785-909: parse_argv; the flags; the package lists grow; the
\* patch must be a file
M_Args ==
    /\ AtMain("args")
    /\ IF ~ParseAccepts(parsed)
       THEN exit' = "2" /\ UNCHANGED <<pc, pkgs>>
       ELSE IF PatchMissing(fs, parsed)
       THEN Die /\ UNCHANGED <<pc, pkgs>>
       ELSE /\ pkgs' = PkgsAfterFlags(pkgs, parsed)
            /\ pc' = "get_distro" /\ UNCHANGED exit
    /\ UNCHANGED <<parsed, host, run, loc, call, bpc, cmds, fs, cwd, remote, pk, ppc>>

\* lines 911-923
M_GetDistro ==
    /\ AtMain("get_distro")
    /\ CASE host.lsb = "missing" ->
              /\ UNCHANGED <<loc, cmds>>
              /\ IF Locals(parsed).skip_install_pkgs
                 THEN pc' = "install_packages" /\ UNCHANGED exit
                 ELSE Die /\ UNCHANGED pc
         [] host.lsb = "stderr" ->
              /\ cmds' = <<Cmd(LsbCmd.argv, 0, <<"stderr">>)>>
              /\ Die /\ UNCHANGED <<pc, loc>>
         [] OTHER ->
              /\ cmds' = <<LsbCmd>>
              /\ IF HasField1(LsbOutput(host.desc))
                 THEN /\ loc' = [loc EXCEPT !.distro = ParseDistro(LsbOutput(host.desc))]
                      /\ pc' = "install_packages" /\ UNCHANGED exit
                 ELSE Raise /\ UNCHANGED <<pc, loc>>
    /\ UNCHANGED <<parsed, host, run, pkgs, call, bpc, fs, cwd, remote, pk, ppc>>

\* lines 575-578: the else branch of install_packages
UnsupportedNever(distro) == FALSE
Unsupported(distro) == DistroFamily(distro) = "unsupported"

\* lines 925-929 and install_packages
M_InstallPackages ==
    /\ AtMain("install_packages")
    /\ IF Locals(parsed).skip_install_pkgs
       THEN pc' = "ensure_opt" /\ UNCHANGED <<exit, cmds>>
       ELSE IF loc.distro = PyNone
       THEN Raise /\ UNCHANGED <<pc, cmds>>
       ELSE IF Unsupported(loc.distro)
       THEN Die /\ UNCHANGED <<pc, cmds>>
       ELSE /\ cmds' = [i \in 1..Len(InstallArgvs(loc.distro, pkgs, host.uid)) |->
                           Cmd(InstallArgvs(loc.distro, pkgs, host.uid)[i], 0, <<>>)]
            /\ pc' = "ensure_opt" /\ UNCHANGED exit
    /\ UNCHANGED <<parsed, host, run, loc, pkgs, call, bpc, fs, cwd, remote, pk, ppc>>

\* ensure_dir (lines 53-72): os.mkdir, and with sudo where the user may not write
NeedsSudo(path, uid) == uid # 0 /\ Dirname(path) \in {<<>>, OPT}

EnsureDir(path, next) ==
    IF Exists(fs, path)
    THEN pc' = next /\ UNCHANGED <<exit, cmds, fs>>
    ELSE IF ~(Dirname(path) = <<>> \/ IsDir(fs, Dirname(path)))
    THEN Raise /\ UNCHANGED <<pc, cmds, fs>>
    ELSE IF NeedsSudo(path, host.uid)
    THEN \E rc \in RCs :
           /\ cmds' = <<Cmd(<<<<"sudo">>, <<"mkdir">>, path>>, rc, <<>>),
                        Cmd(<<<<"sudo">>, <<"chown">>, <<"login:">>, path>>, rc, <<>>)>>
           /\ fs' = IF rc = 0 THEN MkDir(fs, path) ELSE fs
           /\ pc' = next /\ UNCHANGED exit
    ELSE /\ fs' = MkDir(fs, path)
         /\ pc' = next /\ UNCHANGED <<exit, cmds>>

\* line 933
M_EnsureOpt ==
    /\ AtMain("ensure_opt")
    /\ EnsureDir(OPT, "ensure_prefix")
    /\ UNCHANGED <<parsed, host, run, loc, pkgs, call, bpc, cwd, remote, pk, ppc>>

\* line 934
M_EnsurePrefix ==
    /\ AtMain("ensure_prefix")
    /\ EnsureDir(Locals(parsed).install_prefix, "ensure_src")
    /\ UNCHANGED <<parsed, host, run, loc, pkgs, call, bpc, cwd, remote, pk, ppc>>

\* line 935
M_EnsureSrc ==
    /\ AtMain("ensure_src")
    /\ EnsureDir(Locals(parsed).src_dir, "osg")
    /\ UNCHANGED <<parsed, host, run, loc, pkgs, call, bpc, cwd, remote, pk, ppc>>

\* a build_library call of main: the call starts, main goes on at `next`
StartBuild(c, next) ==
    /\ call' = c
    /\ bpc' = "enter"
    /\ cmds' = <<>>
    /\ pc' = next
    /\ loc' = [loc EXCEPT !.steps = Append(@, c.libname)]

SkipStep(next) == pc' = next /\ UNCHANGED <<call, bpc, cmds, loc>>

\* the order of the dependency blocks in main (lines 940, 987, 1011, 1025)
StepAfterSwapped(at) ==
    CASE at = "osg" -> "unshield"
      [] at = "unshield" -> "bullet"
      [] at = "bullet" -> "mygui"
StepAfter(at) ==
    CASE at = "osg" -> "bullet"
      [] at = "bullet" -> "unshield"
      [] at = "unshield" -> "mygui"

\* lines 940-984
M_Osg ==
    /\ AtMain("osg")
    /\ IF Locals(parsed).build_upstream_osg
       THEN StartBuild(CallOsg(fs, cwd, Locals(parsed)), StepAfter("osg"))
       ELSE IF ~Locals(parsed).system_osg
       THEN StartBuild(CallOsgOpenmw(fs, cwd, Locals(parsed)), StepAfter("osg"))
       ELSE SkipStep(StepAfter("osg"))
    /\ UNCHANGED <<parsed, host, run, exit, pkgs, fs, cwd, remote, pk, ppc>>

\* lines 987-1008
M_Bullet ==
    /\ AtMain("bullet")
    /\ IF Locals(parsed).build_bullet \/ Locals(parsed).force_bullet
       THEN StartBuild(CallBullet(fs, cwd, Locals(parsed)), StepAfter("bullet"))
       ELSE SkipStep(StepAfter("bullet"))
    /\ UNCHANGED <<parsed, host, run, exit, pkgs, fs, cwd, remote, pk, ppc>>

\* lines 1011-1022
M_Unshield ==
    /\ AtMain("unshield")
    /\ IF Locals(parsed).build_unshield \/ Locals(parsed).force_unshield
       THEN StartBuild(CallUnshield(fs, cwd, Locals(parsed)), StepAfter("unshield"))
       ELSE SkipStep(StepAfter("unshield"))
    /\ UNCHANGED <<parsed, host, run, exit, pkgs, fs, cwd, remote, pk, ppc>>

\* lines 1025-1050
M_Mygui ==
    /\ AtMain("mygui")
    /\ LET next == IF Locals(parsed).tes3mp \/ Locals(parsed).tes3mp_serveronly
                   THEN "t_sha" ELSE "o_sha"
       IN IF ~(Locals(parsed).make_pkg /\ host.forge)
             /\ (Locals(parsed).build_mygui \/ Locals(parsed).force_mygui)
          THEN StartBuild(CallMygui(fs, cwd, Locals(parsed)), next)
          ELSE SkipStep(next)
    /\ UNCHANGED <<parsed, host, run, exit, pkgs, fs, cwd, remote, pk, ppc>>

\* return from build_library
BL_Return ==
    /\ exit = "none" /\ bpc = "ret"
    /\ bpc' = "idle"
    /\ UNCHANGED <<parsed, host, run, pc, exit, loc, pkgs, call, cmds, fs, cwd, remote, pk, ppc>>

\* return from make_portable_package
P_Return ==
    /\ exit = "none" /\ ppc = "ret"
    /\ ppc' = "idle"
    /\ UNCHANGED <<parsed, host, run, pc, exit, loc, pkgs, call, bpc, cmds, fs, cwd, remote, pk>>

\* lines 1052-1059
M_TSha ==
    /\ AtMain("t_sha")
    /\ \E fetched \in BOOLEAN :
         LET L == Locals(parsed)
             r == GetRepoSha(fs, cwd, L.src_dir, TES3MP, L.rev, L.pull, fetched, remote)
         IN /\ (~L.pull => fetched)
            /\ fs' = r.fs /\ cwd' = r.cwd /\ cmds' = r.cmds
            /\ loc' = [loc EXCEPT !.sha = r.ret,
                                  !.name = IF Truthy(r.ret) THEN <<"tes3mp", "-">> \o r.ret
                                           ELSE TES3MP]
    /\ pc' = "t_build"
    /\ UNCHANGED <<parsed, host, run, exit, pkgs, call, bpc, remote, pk, ppc>>

\* lines 1060-1140
M_TBuild ==
    /\ AtMain("t_build")
    /\ StartBuild(CallTes3mp(fs, cwd, Locals(parsed), loc.name,
                             Tes3mpEnv(Locals(parsed), loc.environ, host.forge), host.forge),
                  "t_after")
    /\ UNCHANGED <<parsed, host, run, exit, pkgs, fs, cwd, remote, pk, ppc>>

\* lines 1142-1153
M_TAfter ==
    /\ AtMain("t_after")
    /\ \E fetched \in BOOLEAN :
         LET L == Locals(parsed)
             r == GetRepoSha(fs, cwd, L.src_dir, TES3MP, L.rev, L.pull, fetched, remote)
             name == loc.name \o <<"-">> \o r.ret
             k == LinkInstall(r.fs, L.install_prefix, TES3MP, name, r.ret)
         IN /\ (~L.pull => fetched)
            /\ cmds' = r.cmds
            /\ IF ~Truthy(r.ret)
               THEN /\ Raise /\ fs' = r.fs /\ cwd' = r.cwd
                    /\ UNCHANGED <<pc, loc>>
               ELSE /\ loc' = [loc EXCEPT !.sha = r.ret, !.name = name]
                    /\ IF ~L.make_install
                       THEN /\ fs' = r.fs /\ cwd' = r.cwd
                            /\ pc' = "t_pkg" /\ UNCHANGED exit
                       ELSE IF ~IsDir(r.fs, L.install_prefix)
                       THEN /\ Raise /\ fs' = r.fs /\ cwd' = r.cwd /\ UNCHANGED pc
                       ELSE /\ fs' = k.fs /\ cwd' = L.install_prefix
                            /\ IF k.ok THEN pc' = "t_pkg" /\ UNCHANGED exit
                               ELSE Raise /\ UNCHANGED pc
    /\ UNCHANGED <<parsed, host, run, pkgs, call, bpc, remote, pk, ppc>>

\* a make_portable_package call of main
StartPackage(k, next) ==
    /\ pk' = k
    /\ ppc' = "enter"
    /\ pc' = next

\* lines 1155-1162
M_TPkg ==
    /\ AtMain("t_pkg")
    /\ IF Locals(parsed).make_pkg
       THEN StartPackage(PkgCall(fs, loc.name, loc.distro, Locals(parsed).force_pkg,
                                 Locals(parsed).out_dir, Locals(parsed).tes3mp_serveronly),
                         "t_core")
       ELSE pc' = "t_core" /\ UNCHANGED <<pk, ppc>>
    /\ UNCHANGED <<parsed, host, run, exit, loc, pkgs, call, bpc, cmds, fs, cwd, remote>>

\* lines 1164-1197: the configuration file is looked for in the directory
\* os.makedirs has just created
M_TCore ==
    /\ AtMain("t_core")
    /\ LET etc == Join(INSTALL_PREFIX, loc.name \o <<"/", "etc", "/", "openmw">>)
       IN IF ~Locals(parsed).with_corescripts
          THEN pc' = "end" /\ UNCHANGED <<exit, cmds, fs, cwd>>
          ELSE IF LExists(fs, etc)
          THEN Raise /\ UNCHANGED <<pc, cmds, fs, cwd>>
          ELSE \E rc \in RCs :
                 /\ fs' = IF rc = 0 THEN MkDir(MkDir(fs, etc), Join(etc, <<"server">>))
                          ELSE MkDir(fs, etc)
                 /\ cmds' = <<Cmd(<<<<"git">>, <<"clone">>, <<"https://github.com/TES3MP/CoreScripts.git">>,
                                    <<"server">>>>, rc, <<>>)>>
                            \o (IF rc = 0
                                THEN <<Cmd(<<<<"git">>, <<"checkout">>, TES3MP_CORESCRIPTS_VERSION>>, 0, <<>>)>>
                                ELSE <<>>)
                 /\ cwd' = IF rc = 0 THEN etc ELSE cwd
                 /\ Raise /\ UNCHANGED pc
    /\ UNCHANGED <<parsed, host, run, loc, pkgs, call, bpc, remote, pk, ppc>>

\* lines 1201-1206
M_OSha ==
    /\ AtMain("o_sha")
    /\ \E fetched \in BOOLEAN :
         LET L == Locals(parsed)
             r == GetRepoSha(fs, cwd, L.src_dir, OPENMW, L.rev, L.pull, fetched, remote)
         IN /\ (~L.pull => fetched)
            /\ fs' = r.fs /\ cwd' = r.cwd /\ cmds' = r.cmds
            /\ loc' = [loc EXCEPT !.sha = r.ret,
                                  !.name = IF Truthy(r.ret) THEN <<"openmw", "-">> \o r.ret
                                           ELSE OPENMW]
    /\ pc' = "o_distro"
    /\ UNCHANGED <<parsed, host, run, exit, pkgs, call, bpc, remote, pk, ppc>>

\* lines 1223-1240
M_ODistro ==
    /\ AtMain("o_distro")
    /\ CASE host.lsb = "missing" ->
              /\ UNCHANGED cmds
              /\ loc' = [loc EXCEPT !.distro = PyNone]
              /\ IF Locals(parsed).skip_install_pkgs
                 THEN Raise /\ UNCHANGED pc
                 ELSE Die /\ UNCHANGED pc
         [] host.lsb = "stderr" ->
              /\ cmds' = <<Cmd(LsbCmd.argv, 0, <<"stderr">>)>>
              /\ loc' = [loc EXCEPT !.distro = PyNone]
              /\ Die /\ UNCHANGED pc
         [] OTHER ->
              /\ cmds' = <<LsbCmd>>
              /\ IF HasField1(LsbOutput(host.desc))
                 THEN /\ loc' = [loc EXCEPT !.distro = ParseDistro(LsbOutput(host.desc))]
                      /\ pc' = "o_build" /\ UNCHANGED exit
                 ELSE /\ loc' = [loc EXCEPT !.distro = PyNone]
                      /\ Raise /\ UNCHANGED pc
    /\ UNCHANGED <<parsed, host, run, pkgs, call, bpc, fs, cwd, remote, pk, ppc>>

\* lines 1207-1221 and 1242-1325; line 1309 changes os.environ after build_env was copied
M_OBuild ==
    /\ AtMain("o_build")
    /\ call' = CallOpenmw(fs, cwd, Locals(parsed), loc.name,
                          OpenmwEnv(Locals(parsed), loc.environ, loc.distro))
    /\ bpc' = "enter"
    /\ cmds' = <<>>
    /\ pc' = "o_after"
    /\ loc' = [loc EXCEPT !.steps = Append(@, loc.name),
                          !.environ = SetEnv(@, "OPENMW_LTO_BUILD", <<"on">>)]
    /\ UNCHANGED <<parsed, host, run, exit, pkgs, fs, cwd, remote, pk, ppc>>

\* lines 1326-1334
M_OAfter ==
    /\ AtMain("o_after")
    /\ LET L == Locals(parsed)
           r == GetRepoSha(fs, L.install_prefix, L.src_dir, OPENMW, L.rev, FALSE, TRUE, remote)
           k == LinkInstall(r.fs, L.install_prefix, OPENMW, loc.name, r.ret)
       IN IF ~IsDir(fs, L.install_prefix)
          THEN Raise /\ UNCHANGED <<pc, loc, cmds, fs, cwd>>
          ELSE /\ cmds' = r.cmds
               /\ loc' = [loc EXCEPT !.sha = r.ret]
               /\ fs' = k.fs /\ cwd' = L.install_prefix
               /\ IF k.ok THEN pc' = "o_pkg" /\ UNCHANGED exit
                  ELSE Raise /\ UNCHANGED pc
    /\ UNCHANGED <<parsed, host, run, pkgs, call, bpc, remote, pk, ppc>>

\* lines 1336-1337
M_OPkg ==
    /\ AtMain("o_pkg")
    /\ IF Locals(parsed).make_pkg
       THEN StartPackage(PkgCall(fs, loc.name, loc.distro, Locals(parsed).force_pkg,
                                 Locals(parsed).out_dir, FALSE),
                         "end")
       ELSE pc' = "end" /\ UNCHANGED <<pk, ppc>>
    /\ UNCHANGED <<parsed, host, run, exit, loc, pkgs, call, bpc, cmds, fs, cwd, remote>>

\* lines 1339-1343: main returns
M_End ==
    /\ AtMain("end")
    /\ exit' = "0"
    /\ UNCHANGED <<parsed, host, run, pc, loc, pkgs, call, bpc, cmds, fs, cwd, remote, pk, ppc>>

Main ==
    \/ M_Args \/ M_GetDistro \/ M_InstallPackages
    \/ M_EnsureOpt \/ M_EnsurePrefix \/ M_EnsureSrc
    \/ M_Osg \/ M_Bullet \/ M_Unshield \/ M_Mygui
    \/ M_TSha \/ M_TBuild \/ M_TAfter \/ M_TPkg \/ M_TCore
    \/ M_OSha \/ M_ODistro \/ M_OBuild \/ M_OAfter \/ M_OPkg
    \/ M_End \/ BL_Return \/ P_Return

-----------------------------------------------------------------------------
(* SpecPkgs: the start of main up to install_packages, on every kind of    *)
(* machine: the description lsb_release prints, the user id, whether       *)
(* lsb_release is installed and prints to stderr.                          *)

Descriptions ==
    {<<"V", "o", "i", "d", " ", "L", "i", "n", "u", "x">>,
     <<"A", "r", "c", "h", " ", "L", "i", "n", "u", "x">>,
     <<"D", "e", "b", "i", "a", "n", " ", "G", "N", "U", "/", "L", "i", "n", "u", "x", " ", "1", "0">>,
     <<"D", "e", "v", "u", "a", "n", " ", "G", "N", "U", "/", "L", "i", "n", "u", "x", " ", "3">>,
     <<"U", "b", "u", "n", "t", "u", " ", "2", "0", ".", "0", "4">>,
     <<"L", "i", "n", "u", "x", " ", "M", "i", "n", "t", " ", "2", "0">>,
     <<"F", "e", "d", "o", "r", "a", " ", "3", "3">>,
     <<"G", "e", "n", "t", "o", "o">>}

Uids == {0, 1000}

Hosts ==
    {[uid |-> u, lsb |-> l, desc |-> d, forge |-> FALSE] :
        u \in Uids, l \in {"ok", "missing", "stderr"}, d \in Descriptions}

PkgsParsedSet ==
    {[DefaultParsed EXCEPT !.tes3mp = t, !.tes3mp_server_only = so, !.skip_install_pkgs = sk,
                           !.make_pkg = mp] :
        t \in BOOLEAN, so \in BOOLEAN, sk \in BOOLEAN, mp \in BOOLEAN}

InitPkgsSpec ==
    /\ parsed \in PkgsParsedSet
    /\ host \in Hosts
    /\ run = 1
    /\ pc = "args"
    /\ exit = "none"
    /\ loc = InitLoc(host)
    /\ pkgs = InitPkgs
    /\ call = NoCall
    /\ bpc = "idle"
    /\ cmds = <<>>
    /\ fs = FreshFs
    /\ cwd = START_DIR
    /\ remote = "c1"
    /\ pk = NoPk
    /\ ppc = "idle"

NextPkgs == M_Args \/ M_GetDistro \/ M_InstallPackages

SpecPkgs == InitPkgsSpec /\ [][NextPkgs]_vars

-----------------------------------------------------------------------------
(* SpecPackager: one make_portable_package call, as main makes it, with or *)
(* without the out directory, an older archive and the built files.        *)

PkgNames == {<<"openmw">>, <<"openmw", "-", "h1">>, <<"tes3mp", "-", "h1">>}

PkgDistros == {PyNone, <<"U", "b", "u", "n", "t", "u", " ", "2", "0", ".", "0", "4">>, <<"V", "o", "i", "d", " ", "L", "i", "n", "u", "x">>, <<"A", "r", "c", "h", " ", "L", "i", "n", "u", "x">>, <<"D", "e", "b", "i", "a", "n">>, <<"D", "e", "v", "u", "a", "n">>, <<"L", "i", "n", "u", "x", " ", "M", "i", "n", "t">>, <<"F", "e", "d", "o", "r", "a">>}

\* the file system after the build steps the packager copies from
WithBuilt(F) ==
    LET outs == {Join(SRC_DIR, l \o <<"/", "build", "/">> \o l) :
                    l \in {BULLET, MYGUI, UNSHIELD, OSG_OPENMW, TES3MP}}
                \cup {Join(SRC_DIR, TES3MP \o <<"/", "build", "/">> \o TES3MP_SERVER)}
    IN [F EXCEPT !.files = @ \cup {[p |-> o, c |-> <<"c1">>] : o \in outs}]

WithOutDir(F, k, archive) ==
    IF archive THEN WriteFile(MkDir(F, k.out_dir), PkgPath(k), <<"old archive">>)
    ELSE MkDir(F, k.out_dir)

InitPackager ==
    \E name \in PkgNames, d \in PkgDistros, force \in BOOLEAN, so \in BOOLEAN,
       built \in BOOLEAN, outdir \in BOOLEAN, archive \in BOOLEAN, forge \in BOOLEAN :
        LET k0 == PkgCall(BaseFs, name, d, force, OUT_DIR, so)
            F1 == IF built THEN WithBuilt(BaseFs) ELSE BaseFs
            F2 == IF outdir THEN WithOutDir(F1, k0, archive) ELSE F1
        IN /\ (archive => outdir)
           /\ parsed = [DefaultParsed EXCEPT !.make_pkg = TRUE, !.force_pkg = force,
                                             !.tes3mp_server_only = so]
           /\ host = [DefaultHost EXCEPT !.forge = forge]
           /\ run = 1
           /\ pc = "end"
           /\ exit = "none"
           /\ loc = [InitLoc(host) EXCEPT !.distro = d, !.name = name]
           /\ pkgs = InitPkgs
           /\ call = NoCall
           /\ bpc = "idle"
           /\ cmds = <<>>
           /\ fs = F2
           /\ cwd = INSTALL_PREFIX
           /\ remote = "c1"
           /\ pk = PkgCall(F2, name, d, force, OUT_DIR, so)
           /\ ppc = "enter"

NextPackager == Packager

SpecPackager == InitPackager /\ [][NextPackager]_vars

-----------------------------------------------------------------------------
(* Spec: the script run up to MaxRuns times on one machine, each time with *)
(* its own command line; the disk is what the previous run left.           *)

MaxRuns == 2

ParsedSet ==
    {[DefaultParsed EXCEPT !.tes3mp = t, !.make_install = mi, !.make_pkg = mp, !.tag = tg] :
        t \in BOOLEAN, mi \in BOOLEAN, mp \in BOOLEAN, tg \in {<<"t1">>, <<"t2">>}}
    \cup {[DefaultParsed EXCEPT !.tes3mp = t, !.make_pkg = TRUE, !.tag = <<"t2">>,
                                 !.build_bullet = TRUE, !.build_mygui = TRUE,
                                 !.build_unshield = TRUE] : t \in BOOLEAN}
    \cup {[DefaultParsed EXCEPT !.tes3mp = TRUE, !.make_install = TRUE, !.with_corescripts = TRUE,
                                 !.tag = <<"t2">>],
           [DefaultParsed EXCEPT !.force_all = TRUE, !.make_pkg = TRUE, !.tag = <<"t2">>],
           [DefaultParsed EXCEPT !.tes3mp_server_only = TRUE, !.force_all_tes3mp = TRUE,
                                 !.make_install = TRUE, !.make_pkg = TRUE, !.tag = <<"t2">>],
           [DefaultParsed EXCEPT !.patch = PATCH_FILE, !.tag = <<"t1">>]}

Init ==
    /\ parsed \in ParsedSet
    /\ host = DefaultHost
    /\ run = 1
    /\ pc = "args"
    /\ exit = "none"
    /\ loc = InitLoc(DefaultHost)
    /\ pkgs = InitPkgs
    /\ call = NoCall
    /\ bpc = "idle"
    /\ cmds = <<>>
    /\ fs = FreshFs
    /\ cwd = START_DIR
    /\ remote = "c1"
    /\ pk = NoPk
    /\ ppc = "idle"

\* the script is started again
NewRun ==
    /\ exit # "none" /\ run < MaxRuns
    /\ run' = run + 1
    /\ parsed' \in ParsedSet
    /\ pc' = "args"
    /\ exit' = "none"
    /\ loc' = InitLoc(host)
    /\ pkgs' = InitPkgs
    /\ call' = NoCall
    /\ bpc' = "idle"
    /\ cmds' = <<>>
    /\ cwd' = START_DIR
    /\ pk' = NoPk
    /\ ppc' = "idle"
    /\ UNCHANGED <<host, fs, remote>>

Next == Main \/ BuildLibrary \/ Packager \/ NewRun

Spec == Init /\ [][Next]_vars

-----------------------------------------------------------------------------
(* SpecRun: one run of the script, on machines whose distribution is       *)
(* supported, unsupported or cannot be determined, with the flags that     *)
(* select the OSG variant, the install prefix, the patch and the fetch.    *)
(* The disk is fresh, or holds the checkouts an earlier run cloned when    *)
(* the remote was one commit behind.                                       *)

ALT_PREFIX == Join(OPT, <<"alt">>)
MISSING_PATCH == <<"/home/user/none.patch">>

RunHosts ==
    {DefaultHost,
     [DefaultHost EXCEPT !.desc = <<"G", "e", "n", "t", "o", "o">>],
     [DefaultHost EXCEPT !.lsb = "missing"],
     [DefaultHost EXCEPT !.lsb = "stderr"]}

RunParsedSet ==
    {[DefaultParsed EXCEPT !.tes3mp = t, !.make_install = mi, !.make_pkg = mp,
                           !.skip_install_pkgs = s] :
        t \in BOOLEAN, mi \in BOOLEAN, mp \in BOOLEAN, s \in BOOLEAN}
    \cup {[DefaultParsed EXCEPT !.tes3mp = t, !.system_osg = TRUE] : t \in BOOLEAN}
    \cup {[DefaultParsed EXCEPT !.tes3mp = t, !.install_prefix = ip, !.build_upstream_osg = up,
                                 !.build_bullet = TRUE] :
             t \in BOOLEAN, ip \in {<<>>, ALT_PREFIX}, up \in BOOLEAN}
    \cup {[DefaultParsed EXCEPT !.tes3mp = t, !.no_pull = TRUE] : t \in BOOLEAN}
    \cup {[DefaultParsed EXCEPT !.patch = pa, !.force_all = fa, !.force_pkg = fp] :
             pa \in {PATCH_FILE, MISSING_PATCH}, fa \in BOOLEAN, fp \in BOOLEAN}
    \cup {[DefaultParsed EXCEPT !.tes3mp = t, !.make_pkg = TRUE, !.tag = <<"t2">>,
                                 !.build_bullet = TRUE, !.build_mygui = TRUE,
                                 !.build_unshield = TRUE] : t \in BOOLEAN}

\* the sources of the OSG fork, OpenMW and TES3MP cloned at commit c1, nothing built
ClonedFs ==
    GitClone(GitClone(GitClone(BaseFs, Join(SRC_DIR, OSG_OPENMW), OSG_OPENMW_URL, <<>>, "c1"),
                      Join(SRC_DIR, OPENMW), OPENMW_URL, <<>>, "c1"),
             Join(SRC_DIR, TES3MP), TES3MP_URL, <<>>, "c1")

InitRun ==
    /\ parsed \in RunParsedSet
    /\ host \in RunHosts
    /\ run = 1
    /\ pc = "args"
    /\ exit = "none"
    /\ loc = InitLoc(host)
    /\ pkgs = InitPkgs
    /\ call = NoCall
    /\ bpc = "idle"
    /\ cmds = <<>>
    /\ fs \in {FreshFs, ClonedFs}
    /\ cwd = START_DIR
    /\ remote = "c2"
    /\ pk = NoPk
    /\ ppc = "idle"

NextRun == Main \/ BuildLibrary \/ Packager

SpecRun == InitRun /\ [][NextRun]_vars

-----------------------------------------------------------------------------
(* SpecInterrupt: the runs of SpecRun, in which the user may press Ctrl-C  *)
(* at any point of main.  pc = "ctrl_c" is the handler at the bottom of    *)
(* the script.                                                             *)

\* lines 1346-1350, were the handler to remove the source directory first
KeyboardInterruptCleansUp ==
    /\ exit = "none"
    /\ pc' = "ctrl_c"
    /\ Die
    /\ fs' = RmTree(fs, SRC_DIR)
    /\ UNCHANGED <<parsed, host, run, loc, pkgs, call, bpc, cmds, cwd, remote, pk, ppc>>

\* lines 1346-1350: except KeyboardInterrupt: error_and_die("Ctrl-c recieved!")
KeyboardInterrupt ==
    /\ exit = "none"
    /\ pc' = "ctrl_c"
    /\ Die
    /\ UNCHANGED <<parsed, host, run, loc, pkgs, call, bpc, cmds, fs, cwd, remote, pk, ppc>>

NextInterrupt == Main \/ BuildLibrary \/ Packager \/ KeyboardInterrupt

SpecInterrupt == InitRun /\ [][NextInterrupt]_vars

-----------------------------------------------------------------------------
(* SpecRev: one run for each way of selecting the revision: no selector, a *)
(* branch with and without a slash, a commit hash, a tag, and the command  *)
(* lines that give more than one selector.                                 *)

RevSelections ==
    {[branch |-> b, sha |-> sh, tag |-> tg] :
        b \in {<<>>, <<"dev">>, <<"upstream", "/", "dev">>, <<"origin/", "master">>},
        sh \in {<<>>, <<"c1">>}, tg \in {<<>>, <<"t1">>}}

RevParsedSet ==
    {[DefaultParsed EXCEPT !.tes3mp = t, !.branch = r.branch, !.sha = r.sha, !.tag = r.tag] :
        t \in BOOLEAN, r \in RevSelections}
    \cup {[DefaultParsed EXCEPT !.tes3mp = t, !.make_pkg = TRUE, !.make_install = TRUE, !.tag = <<"t2">>,
                                 !.build_bullet = TRUE, !.build_mygui = TRUE,
                                 !.build_unshield = TRUE] : t \in BOOLEAN}
    \cup {[DefaultParsed EXCEPT !.patch = PATCH_FILE, !.sha = <<"c2">>]}

InitRev ==
    /\ parsed \in RevParsedSet
    /\ host = DefaultHost
    /\ run = 1
    /\ pc = "args"
    /\ exit = "none"
    /\ loc = InitLoc(host)
    /\ pkgs = InitPkgs
    /\ call = NoCall
    /\ bpc = "idle"
    /\ cmds = <<>>
    /\ fs \in {FreshFs, ClonedFs}
    /\ cwd = START_DIR
    /\ remote = "c2"
    /\ pk = NoPk
    /\ ppc = "idle"

NextRev == Main \/ BuildLibrary \/ Packager

SpecRev == InitRev /\ [][NextRev]_vars

-----------------------------------------------------------------------------
(* SpecSha: get_repo_sha called twice for the same revision, as main calls *)
(* it before and after the main project's build step, with the remote and  *)
(* the network (host.net: git fetch reaches the remote) fixed.  The        *)
(* checkout is missing, or its HEAD and its origin/master are each at one  *)
(* of two commits.                                                         *)

ShaHosts ==
    {[uid |-> 1000, lsb |-> "ok", desc |-> DefaultHost.desc, forge |-> FALSE, net |-> n] :
        n \in BOOLEAN}

ShaParsedSet ==
    {[DefaultParsed EXCEPT !.tes3mp = t, !.no_pull = np, !.tag = tg] :
        t \in BOOLEAN, np \in BOOLEAN, tg \in {<<>>, <<"t1">>, <<"t2">>}}
    \cup {[DefaultParsed EXCEPT !.tes3mp = t, !.no_pull = np, !.sha = <<"c2">>] :
             t \in BOOLEAN, np \in BOOLEAN}
    \cup {[DefaultParsed EXCEPT !.patch = PATCH_FILE, !.branch = <<"master">>]}

MainRepo(p) == IF p.tes3mp \/ p.tes3mp_server_only THEN TES3MP ELSE OPENMW

\* the checkouts with HEAD at commit h and origin/master at commit t
CheckoutAt(h, t) ==
    LET at(F, repo) == WriteFile(WriteFile(F, HeadFile(repo), h), TipFile(repo), t)
    IN at(at(ClonedFs, Join(SRC_DIR, OPENMW)), Join(SRC_DIR, TES3MP))

InitSha ==
    /\ parsed \in ShaParsedSet
    /\ host \in ShaHosts
    /\ run = 1
    /\ pc = "sha_1"
    /\ exit = "none"
    /\ loc = [InitLoc(host) EXCEPT !.distro = host.desc]
    /\ pkgs = InitPkgs
    /\ call = NoCall
    /\ bpc = "idle"
    /\ cmds = <<>>
    /\ fs \in {BaseFs} \cup {CheckoutAt(h, t) : h \in {<<"c1">>, <<"c2">>}, t \in {<<"c1">>, <<"c2">>}}
    /\ cwd = START_DIR
    /\ remote \in {"c1", "c2"}
    /\ pk = NoPk
    /\ ppc = "idle"

\* lines 1052-1059, 1142-1145, 1201-1206, 1328: the call before the build step
\* passes pull, the call after it pull or False
Sha_Call ==
    /\ exit = "none" /\ bpc = "idle" /\ pc \in {"sha_1", "sha_2"}
    /\ \E pull \in IF pc = "sha_1" THEN {Locals(parsed).pull} ELSE {Locals(parsed).pull, FALSE} :
         LET L == Locals(parsed)
             r == GetRepoSha(fs, cwd, L.src_dir, MainRepo(parsed), L.rev, pull, host.net, remote)
         IN /\ fs' = r.fs /\ cwd' = r.cwd /\ cmds' = r.cmds
            /\ loc' = [loc EXCEPT !.sha = r.ret,
                                  !.name = IF Truthy(r.ret) THEN MainRepo(parsed) \o <<"-">> \o r.ret
                                           ELSE MainRepo(parsed)]
    /\ pc' = IF pc = "sha_1" THEN "sha_2" ELSE "done"
    /\ UNCHANGED <<parsed, host, run, exit, pkgs, call, bpc, remote, pk, ppc>>

\* lines 1125-1140, 1311-1325: the build step between the two calls
Sha_Build ==
    /\ exit = "none" /\ bpc = "idle" /\ pc = "sha_2" /\ call = NoCall
    /\ StartBuild(IF MainRepo(parsed) = TES3MP
                  THEN CallTes3mp(fs, cwd, Locals(parsed), loc.name,
                                  Tes3mpEnv(Locals(parsed), loc.environ, host.forge), host.forge)
                  ELSE CallOpenmw(fs, cwd, Locals(parsed), loc.name,
                                  OpenmwEnv(Locals(parsed), loc.environ, loc.distro)),
                  "sha_2")
    /\ UNCHANGED <<parsed, host, run, exit, pkgs, fs, cwd, remote, pk, ppc>>

NextSha == Sha_Call \/ Sha_Build \/ BuildLibrary \/ BL_Return

SpecSha == InitSha /\ [][NextSha]_vars

-----------------------------------------------------------------------------
(* Claims about build_library *)

\* the check file was a regular file, and the source directory was there, when the call began
EntryCheck == Exists(call.entry.fs, call.check_file) /\ IsFile(call.entry.fs, call.check_file)
EntrySrc == Exists(call.entry.fs, RepoPath(call))
InBuild == bpc # "idle"

\* C1: a build_library call whose check file exists as a regular file and whose
\* force is false executes no external command, creates and deletes nothing on
\* disk and leaves the working directory where it was.
C1_SkipIsFrameNeutral ==
    (InBuild /\ EntryCheck /\ ~call.force) =>
        /\ cmds = <<>>
        /\ fs = call.entry.fs
        /\ cwd = call.entry.cwd
        /\ bpc \in {"enter", "ret"}

C1_Witness == bpc = "ret" /\ call.found /\ EntryCheck /\ ~call.force /\ exit = "none"

\* the log holds a checkout and a hard reset, then cmake, then make, in this order
ResetConfigureCompile(log) ==
    \E h, i, j, k \in 1..Len(log) :
        /\ h < i /\ i < j /\ j < k
        /\ IsCheckout(log[h]) /\ IsResetHard(log[i]) /\ IsCmake(log[j]) /\ IsMake(log[k])

\* the command that ended the call with error_and_die
FatalCommand(e) ==
    \/ (IsClone(e) \/ IsPatch(e) \/ IsCmake(e) \/ IsMake(e)) /\ e.rc # 0
    \/ IsMakeInstall(e)

\* C2: with force=true build_library never takes the "found" branch, whether or
\* not the check file exists: it clones first exactly when the source directory
\* is missing, and a call that returns has run checkout and reset --hard, then
\* cmake, then make; the only calls that stop earlier are those a failed
\* command ended with error_and_die.
C2_ForceAlwaysRebuilds ==
    (InBuild /\ call.force) =>
        /\ ~call.found
        /\ (bpc \notin {"enter", "clone", "clean"} => cmds # <<>>)
        /\ (cmds # <<>> => (IsClone(cmds[1]) <=> ~EntrySrc))
        /\ \A i \in 2..Len(cmds) : ~IsClone(cmds[i])
        /\ (bpc = "ret" => ResetConfigureCompile(cmds))
        /\ (exit = "1" => cmds # <<>> /\ FatalCommand(cmds[Len(cmds)]))
        /\ (bpc \in {"patch", "cmake", "make", "install"} =>
                \E i \in 1..Len(cmds) : IsResetHard(cmds[i]))

C2_Witness ==
    /\ bpc = "ret" /\ call.force /\ EntryCheck /\ ~EntrySrc /\ exit = "none"
    /\ IsClone(cmds[1]) /\ ResetConfigureCompile(cmds)

\* C4 (as claimed): a clone or a make install that exits nonzero ends the run,
\* in verbose and in non-verbose mode, and a make install that exits zero is
\* never treated as a failure.
C4_CloneInstallExitFatal ==
    InBuild =>
        \A i \in 1..Len(cmds) :
            /\ (IsClone(cmds[i]) \/ IsMakeInstall(cmds[i])) /\ cmds[i].rc # 0 => exit = "1"
            /\ IsMakeInstall(cmds[i]) /\ cmds[i].rc = 0 => exit = "none"

-----------------------------------------------------------------------------
(* Claims about whole runs (Spec) *)

LastCmd == cmds[Len(cmds)]

\* the last command of the running build step was a cmake or a make that exited nonzero
ConfigureOrCompileFailed ==
    /\ bpc # "idle" /\ cmds # <<>>
    /\ (IsCmake(LastCmd) \/ IsMake(LastCmd))
    /\ LastCmd.rc # 0

\* C3: a cmake or make that exits nonzero ends the run with status 1 at once;
\* nothing of the run follows it (no make after a failed cmake, no make install,
\* later build step, symlink update or packaging after a failed make): the only
\* step from such a state is the start of another run.
C3_ConfigureCompileFailureIsFatal ==
    /\ [](ConfigureOrCompileFailed => exit = "1")
    /\ [][ConfigureOrCompileFailed => run' = run + 1]_vars

C3_Witness ==
    /\ ConfigureOrCompileFailed /\ IsMake(LastCmd) /\ exit = "1"
    /\ call.clone_dest = OSG_OPENMW /\ call.make_install /\ pc = "bullet"
    /\ parsed.make_pkg

\* the short hash of the revision the command line asks for, in the checkout of `repo`
ReqHash(repo) ==
    ShortHash(RevCommit(fs, Join(Locals(parsed).src_dir, repo), Locals(parsed).rev))

Versioned(base) == base \o <<"-">> \o ReqHash(base)

NoDepFlags(L) ==
    ~(L.build_bullet \/ L.force_bullet \/ L.build_mygui \/ L.force_mygui
      \/ L.build_unshield \/ L.force_unshield \/ L.build_upstream_osg \/ L.force_osg)

\* the directories directly below the install prefix whose name starts with `base`
InstallDirs(F, base) ==
    LET pre == Locals(parsed).install_prefix \o <<"/">> IN
    {d \in F.dirs : /\ IsPrefix(pre \o base, d)
                    /\ \A i \in (Len(pre) + 1)..Len(d) : d[i] # "/"}

\* main returned, and the make install of the project's build step exited zero
RunSucceeded == exit = "0" /\ call.install_rc = 0

OpenmwRunDone ==
    /\ RunSucceeded
    /\ ~Locals(parsed).tes3mp /\ ~Locals(parsed).tes3mp_serveronly
    /\ Truthy(parsed.tag)
    /\ NoDepFlags(Locals(parsed))

\* C6: a successful OpenMW run with a tag and no dependency-build flags leaves
\* the directory <prefix>/openmw-<shorthash of the tag>, holding the install,
\* and the symlink <prefix>/openmw pointing to it; no unversioned openmw
\* directory is left, and after a first run it is the only openmw directory.
C6_OpenmwVersionedInstall ==
    OpenmwRunDone =>
        LET prefix == Locals(parsed).install_prefix IN
        /\ Join(prefix, Versioned(OPENMW)) \in fs.dirs
        /\ IsFile(fs, Join(prefix, Versioned(OPENMW) \o <<"/", "bin", "/", "openmw">>))
        /\ \E l \in fs.links : l.p = Join(prefix, OPENMW) /\ l.t = Versioned(OPENMW)
        /\ Join(prefix, OPENMW) \notin fs.dirs
        /\ (run = 1 => InstallDirs(fs, OPENMW) = {Join(prefix, Versioned(OPENMW))})

\* a repeated run: the build was skipped and the symlink made again
C6_Witness ==
    /\ OpenmwRunDone /\ run = 2
    /\ call.found /\ call.libname = Versioned(OPENMW)
    /\ loc.name = Versioned(OPENMW)

\* a first run: the source was cloned by this run and the directory renamed
C6_FirstRunReached ==
    OpenmwRunDone /\ run = 1 /\ loc.name = OPENMW /\ call.libname = OPENMW /\ ~call.found

\* C7 (as claimed): a successful TES3MP run with --make-install leaves the
\* directory <prefix>/tes3mp-<shorthash> and the symlink <prefix>/tes3mp
\* pointing to it.
C7_Tes3mpVersionedInstall ==
    (RunSucceeded /\ Locals(parsed).tes3mp /\ Locals(parsed).make_install) =>
        LET prefix == Locals(parsed).install_prefix IN
        /\ Join(prefix, Versioned(TES3MP)) \in fs.dirs
        /\ \E l \in fs.links : l.p = Join(prefix, TES3MP) /\ l.t = Versioned(TES3MP)

\* C7: no first TES3MP run with --make-install is successful
C7_FirstInstallRunNeverSucceeds ==
    (run = 1 /\ Locals(parsed).tes3mp /\ Locals(parsed).make_install) => ~RunSucceeded

\* C8 (as claimed): the package name main hands to make_portable_package is
\* <project>-<shorthash>, the hash appearing once.
C8_PackageNameIsProjectHash ==
    ppc = "enter" =>
        pk.pkgname = (IF Locals(parsed).tes3mp \/ Locals(parsed).tes3mp_serveronly
                      THEN Versioned(TES3MP) ELSE Versioned(OPENMW))

\* the OpenMW half of C8 alone, and the TES3MP half alone
C8_OpenmwPackageName ==
    (ppc = "enter" /\ ~(Locals(parsed).tes3mp \/ Locals(parsed).tes3mp_serveronly)) =>
        pk.pkgname = Versioned(OPENMW)

C8_Tes3mpPackageName ==
    (ppc = "enter" /\ (Locals(parsed).tes3mp \/ Locals(parsed).tes3mp_serveronly)) =>
        pk.pkgname = Versioned(TES3MP)

-----------------------------------------------------------------------------
(* Claims about make_portable_package (SpecPackager) *)

\* the archive was there when the call began
ArchiveAtEntry == IsFile(pk.entry.fs, PkgPath(pk))

\* C5: make_portable_package, called without force on an archive that already
\* exists, ends the run with status 1 before it touches the disk: the archive
\* keeps its content and no staging directory is made; an existing archive is
\* replaced only when force is true.
C5_NoOverwriteWithoutForce ==
    /\ (ppc # "idle" /\ ArchiveAtEntry /\ ~pk.force) =>
          /\ ppc = "enter"
          /\ fs = pk.entry.fs
          /\ exit \in {"none", "1"}
          /\ TmpDir(pk) \notin fs.dirs
    /\ (ppc # "idle" /\ ArchiveAtEntry /\ fs # pk.entry.fs) => pk.force

C5_Witness ==
    /\ ppc = "enter" /\ ArchiveAtEntry /\ ~pk.force /\ exit = "1"
    /\ Content(fs, PkgPath(pk)) = <<"old archive">>

\* with force the archive is replaced
C5_ForcedReplaceReached ==
    /\ ppc = "ret" /\ ArchiveAtEntry /\ pk.force
    /\ Content(fs, PkgPath(pk)) # <<"old archive">>

-----------------------------------------------------------------------------
(* Claims about install_packages (SpecPkgs) *)

ManagerWords ==
    {<<"sudo">>, <<"xbps-install">>, <<"--yes">>, <<"pacman">>, <<"-sy">>, <<"apt-get">>,
     <<"install">>, <<"-y">>, <<"--force-yes">>, <<"dnf">>, <<"groupinstall">>,
     <<"development-tools">>}

IsPkgWord(w) == w \notin ManagerWords

\* the packages named on a package-manager command line
PkgArgs(argv) == SelectSeq(argv, IsPkgWord)

\* install_packages has returned and has run the package manager
PackagesInstalled ==
    pc = "ensure_opt" /\ exit = "none" /\ ~Locals(parsed).skip_install_pkgs

\* the list the module defines for the distribution, flags aside
BaseList(distro) == PackagesOf(DistroFamily(distro), InitPkgs)

LuaPackage(family) ==
    CASE family \in {"debian", "devuan", "ubuntu"} -> <<<<"libluajit-5.1-dev">>>>
      [] family = "void" -> <<<<"LuaJIT-devel">>>>
      [] OTHER -> <<>>

\* C9 (as claimed): the packages passed to the package manager are those the
\* distribution string selects, whatever flags are given.
C9_ListFromDistroOnly ==
    PackagesInstalled => PkgArgs(LastCmd.argv) = BaseList(loc.distro)

\* C9 (amended): the packages passed to the package manager are determined by
\* the distribution string and the flags --tes3mp and --tes3mp-server-only:
\* the distribution's list, followed on Debian, Devuan, Ubuntu/Mint and Void
\* by the LuaJIT package once for each of the two flags given; on Arch and
\* Fedora the list depends on the distribution string alone.
C9_ListFromDistroAndTes3mpFlags ==
    PackagesInstalled =>
        LET family == DistroFamily(loc.distro)
            lua1 == IF parsed.tes3mp THEN LuaPackage(family) ELSE <<>>
            lua2 == IF parsed.tes3mp_server_only THEN LuaPackage(family) ELSE <<>>
        IN PkgArgs(LastCmd.argv) = BaseList(loc.distro) \o lua1 \o lua2

C9_Witness ==
    /\ PackagesInstalled /\ parsed.tes3mp /\ parsed.tes3mp_server_only
    /\ DistroFamily(loc.distro) = "debian"
    /\ Len(PkgArgs(LastCmd.argv)) = Len(BaseList(loc.distro)) + 2

\* C10 (as claimed): every package-manager command is prefixed with sudo
\* exactly when the user is not root.
C10_SudoIffNotRoot ==
    PackagesInstalled =>
        \A i \in 1..Len(cmds) : (cmds[i].argv[1] = <<"sudo">>) <=> (host.uid # 0)

\* C10 holds on every distribution but Fedora
C10_SudoIffNotRootButFedora ==
    (PackagesInstalled /\ DistroFamily(loc.distro) # "fedora") =>
        \A i \in 1..Len(cmds) : (cmds[i].argv[1] = <<"sudo">>) <=> (host.uid # 0)

-----------------------------------------------------------------------------
(* Claims about a run on a machine whose distribution is unsupported or    *)
(* cannot be determined                                                    *)

\* lsb_release answers, and with a distribution install_packages has no branch for
UnsupportedHost ==
    host.lsb = "ok" /\ HasField1(LsbOutput(host.desc))
    /\ DistroFamily(ParseDistro(LsbOutput(host.desc))) = "unsupported"

IsPackageManagerCmd(e) ==
    \E i \in 1..Len(e.argv) : e.argv[i] \in {<<"xbps-install">>, <<"pacman">>, <<"apt-get">>, <<"dnf">>}

\* C11: on an unsupported distribution without --skip-install-pkgs the run
\* ends with status 1 in install_packages at the latest: no directory has
\* been created and no build step has started.  With the flag no
\* package-manager command is ever executed, and the run goes on from the
\* package step to the creation of the directories.
C11_UnsupportedDistroFatalUnlessSkipped ==
    /\ []((UnsupportedHost /\ ~parsed.skip_install_pkgs) =>
            /\ pc \in {"args", "get_distro", "install_packages"}
            /\ exit \in {"none", "1"}
            /\ fs \in {FreshFs, ClonedFs}
            /\ loc.steps = <<>> /\ bpc = "idle")
    /\ [][(UnsupportedHost /\ ~parsed.skip_install_pkgs /\ pc = "install_packages")
            => (exit' = "1" /\ UNCHANGED <<fs, cmds>>)]_vars
    /\ [](parsed.skip_install_pkgs => \A i \in 1..Len(cmds) : ~IsPackageManagerCmd(cmds[i]))
    /\ [][(UnsupportedHost /\ parsed.skip_install_pkgs /\ pc = "install_packages")
            => (pc' = "ensure_opt" /\ exit' = "none")]_vars

C11_Witness ==
    /\ UnsupportedHost /\ ~parsed.skip_install_pkgs
    /\ pc = "install_packages" /\ exit = "1" /\ fs = FreshFs

\* the same machine with the flag: the run reaches the main project's build step
C11_SkippedRunBuilds ==
    /\ UnsupportedHost /\ parsed.skip_install_pkgs
    /\ pc = "o_after" /\ bpc = "make" /\ exit = "none"

\* lsb_release is not installed, or writes an error to stderr
DetectionFailed == host.lsb \in {"missing", "stderr"}

\* C12 (as claimed): a failure to determine the distribution ends the run only
\* when --skip-install-pkgs is not given: without the flag the run ends with
\* status 1 at the detection; with the flag no run ends at a detection, neither
\* at the one before install_packages nor at the one before OpenMW's configure.
C12_DetectionFailureFatalOnlyWithoutSkip ==
    /\ (DetectionFailed /\ ~parsed.skip_install_pkgs) =>
          (pc \in {"args", "get_distro"} /\ exit \in {"none", "1"})
    /\ (DetectionFailed /\ parsed.skip_install_pkgs /\ exit # "none") =>
          pc \notin {"get_distro", "o_distro"}

\* what holds of C12: with the flag and lsb_release not installed, a TES3MP
\* run reaches the main project's build step
C12_Tes3mpBuildsWithoutLsbRelease ==
    /\ host.lsb = "missing" /\ parsed.skip_install_pkgs /\ parsed.tes3mp
    /\ pc = "t_after" /\ bpc = "make" /\ exit = "none"

\* with the flag and lsb_release not installed, an OpenMW run ends in a traceback
\* before its build step
C12_OpenmwTraceback ==
    /\ host.lsb = "missing" /\ parsed.skip_install_pkgs
    /\ pc = "o_distro" /\ exit = "traceback"

\* with the flag, an lsb_release that writes to stderr ends the run with status 1
C12_StderrFatalDespiteSkip ==
    /\ host.lsb = "stderr" /\ parsed.skip_install_pkgs
    /\ pc = "get_distro" /\ exit = "1"

-----------------------------------------------------------------------------
(* Claims about the build steps of a run *)

\* the build_library call in progress, or last made, is the main project's
MainCall == call.libname # <<>> /\ call.git_url \in {OPENMW_URL, TES3MP_URL}

\* the install directory of the OSG fork, under the default and the chosen prefix
OsgForkDirs == {Join(INSTALL_PREFIX, OSG_OPENMW), Join(Locals(parsed).install_prefix, OSG_OPENMW)}
MentionsOsgFork(s) == \E d \in OsgForkDirs : Contains(s, d)

\* C13 (as claimed): with --system-osg no OSG build step, fork or upstream, is
\* invoked, and neither the configure arguments nor CMAKE_PREFIX_PATH of the
\* main project name a path in the OSG fork's install directory.
C13_SystemOsgBuildsNoOsg ==
    parsed.system_osg =>
        /\ \A i \in 1..Len(loc.steps) : loc.steps[i] \notin {OSG, OSG_OPENMW}
        /\ MainCall =>
             /\ \A i \in 1..Len(call.cmake_args) : ~MentionsOsgFork(call.cmake_args[i])
             /\ \A e \in call.env.vars : e.k = "CMAKE_PREFIX_PATH" => ~MentionsOsgFork(e.v)

\* with --system-osg the OSG fork is built all the same
C13_ForkBuiltDespiteFlag ==
    /\ parsed.system_osg /\ call.libname = OSG_OPENMW /\ bpc = "make"

\* and the main project is configured against the fork's install directory
C13_MainConfiguredAgainstFork ==
    /\ parsed.system_osg /\ MainCall /\ bpc = "cmake"
    /\ \E i \in 1..Len(call.cmake_args) : MentionsOsgFork(call.cmake_args[i])
    /\ \E e \in call.env.vars : e.k = "CMAKE_PREFIX_PATH" /\ MentionsOsgFork(e.v)

MakeInstallRan == \E i \in 1..Len(cmds) : IsMakeInstall(cmds[i])

\* C14 (as claimed): make install is run on the main project, OpenMW or TES3MP,
\* exactly when --make-install was given and the main build step was not skipped.
C14_MakeInstallIffFlag ==
    /\ (MainCall /\ bpc # "idle" /\ MakeInstallRan) => (parsed.make_install /\ ~call.found)
    /\ (MainCall /\ bpc = "ret" /\ parsed.make_install /\ ~call.found) => MakeInstallRan

\* what holds of C14: the TES3MP build step obeys the flag
C14_Tes3mpMakeInstallIffFlag ==
    /\ (MainCall /\ call.git_url = TES3MP_URL /\ bpc # "idle" /\ MakeInstallRan)
          => (parsed.make_install /\ ~call.found)
    /\ (MainCall /\ call.git_url = TES3MP_URL /\ bpc = "ret" /\ parsed.make_install /\ ~call.found)
          => MakeInstallRan

\* OpenMW is installed without the flag
C14_OpenmwInstalledWithoutFlag ==
    /\ MainCall /\ call.git_url = OPENMW_URL /\ bpc = "ret"
    /\ ~parsed.make_install /\ MakeInstallRan

\* the directories this run's OSG and Bullet build steps install to (the
\* -DCMAKE_INSTALL_PREFIX of their configure, CmakeArgv)
OsgInstallDir ==
    Join(Locals(parsed).install_prefix, IF Locals(parsed).build_upstream_osg THEN OSG ELSE OSG_OPENMW)
BulletInstallDir == Join(Locals(parsed).install_prefix, BULLET)

HasArgs(c, args) == \A i \in 1..Len(args) : \E j \in 1..Len(c.cmake_args) : c.cmake_args[j] = args[i]
\* dir is one of the colon-separated entries of CMAKE_PREFIX_PATH
PrefixPathNames(c, dir) ==
    \E e \in c.env.vars :
        e.k = "CMAKE_PREFIX_PATH" /\ Contains(<<":">> \o e.v \o <<":">>, <<":">> \o dir \o <<":">>)

\* the main project is configured with OSG and Bullet library arguments
MainCallWithLibs == MainCall /\ ~Locals(parsed).tes3mp_serveronly /\ ~host.forge

\* C15 (as claimed): the OSG and Bullet locations handed to the main project's
\* configure, in the -D..._INCLUDE_DIR / -D..._LIBRARY arguments and in
\* CMAKE_PREFIX_PATH, are the directories this run's dependency build steps
\* installed to, for every --install-prefix and for the fork as for upstream OSG.
C15_ConfigureUsesThisRunsInstallDirs ==
    MainCallWithLibs =>
        /\ HasArgs(call, OsgArgs(OsgInstallDir))
        /\ PrefixPathNames(call, OsgInstallDir)
        /\ (Locals(parsed).build_bullet \/ Locals(parsed).force_bullet) =>
              /\ HasArgs(call, BulletArgs(BulletInstallDir))
              /\ PrefixPathNames(call, BulletInstallDir)

\* what holds of C15: with the default prefix and the OSG fork the locations agree
C15_DefaultPrefixAndForkAgree ==
    (MainCallWithLibs /\ ~Truthy(parsed.install_prefix) /\ ~parsed.build_upstream_osg) =>
        /\ HasArgs(call, OsgArgs(OsgInstallDir))
        /\ PrefixPathNames(call, OsgInstallDir)
        /\ (Locals(parsed).build_bullet \/ Locals(parsed).force_bullet) =>
              /\ HasArgs(call, BulletArgs(BulletInstallDir))
              /\ PrefixPathNames(call, BulletInstallDir)

\* with another prefix the library arguments still name the default prefix
C15_ArgsNameDefaultPrefix ==
    /\ MainCallWithLibs /\ parsed.install_prefix = ALT_PREFIX /\ ~parsed.build_upstream_osg
    /\ bpc = "cmake"
    /\ HasArgs(call, OsgArgs(Join(INSTALL_PREFIX, OSG_OPENMW)))
    /\ HasArgs(call, BulletArgs(Join(INSTALL_PREFIX, BULLET)))
    /\ PrefixPathNames(call, OsgInstallDir)

\* with upstream OSG, installed to <prefix>/osg, configure is pointed at <prefix>/osg-openmw
C15_UpstreamOsgNotUsed ==
    /\ MainCallWithLibs /\ ~Truthy(parsed.install_prefix) /\ parsed.build_upstream_osg
    /\ bpc = "cmake"
    /\ HasArgs(call, OsgArgs(Join(INSTALL_PREFIX, OSG_OPENMW)))
    /\ PrefixPathNames(call, Join(INSTALL_PREFIX, OSG_OPENMW))
    /\ ~IsDir(fs, Join(INSTALL_PREFIX, OSG_OPENMW))
    /\ IsDir(fs, Join(INSTALL_PREFIX, OSG))

\* the place of a build step in main: the dependencies, then the main project
StepRank(libname) ==
    CASE libname \in {OSG, OSG_OPENMW} -> 1
      [] libname = BULLET -> 2
      [] libname = UNSHIELD -> 3
      [] libname = MYGUI -> 4
      [] OTHER -> 5

\* the ranks of the dependencies the flags select (lines 940, 964, 987, 1011, 1025)
SelectedRanks ==
    LET L == Locals(parsed) IN
    (IF L.build_upstream_osg \/ ~L.system_osg THEN {1} ELSE {})
    \cup (IF L.build_bullet \/ L.force_bullet THEN {2} ELSE {})
    \cup (IF L.build_unshield \/ L.force_unshield THEN {3} ELSE {})
    \cup (IF ~(L.make_pkg /\ host.forge) /\ (L.build_mygui \/ L.force_mygui) THEN {4} ELSE {})

StepsInvoked == {StepRank(loc.steps[i]) : i \in 1..Len(loc.steps)}
MainInvoked == 5 \in StepsInvoked

\* C16: in every run build_library is invoked at most once for each dependency
\* and at most once, in a run that returns exactly once, for the main project,
\* in the order OSG, Bullet, Unshield, MyGUI, main project.  Only the step
\* invoked last can be in progress, nothing follows a fatal error, and when the
\* main project's step is invoked every selected dependency's step has been
\* invoked before it and has returned.
C16_BuildStepsInOrder ==
    /\ [](\A i, j \in 1..Len(loc.steps) : i < j => StepRank(loc.steps[i]) < StepRank(loc.steps[j]))
    /\ [](bpc # "idle" => (loc.steps # <<>> /\ call.libname = loc.steps[Len(loc.steps)]))
    /\ [](MainInvoked => StepsInvoked = SelectedRanks \cup {5})
    /\ [](exit = "0" => MainInvoked)
    /\ [][exit = "none"]_vars

C16_Witness ==
    /\ exit = "0" /\ Len(loc.steps) = 5 /\ StepsInvoked = 1..5
    /\ call.libname = loc.steps[5]

\* a dependency's fatal error: the main project's step is never invoked
C16_DependencyFailureReached ==
    /\ exit = "1" /\ call.libname = BULLET /\ bpc = "make" /\ ~MainInvoked

-----------------------------------------------------------------------------
(* Claims about get_repo_sha *)

IsRevParse(e) == e.argv[1] = <<"git">> /\ e.argv[2] = <<"rev-parse">>

\* the commands on record are those of a get_repo_sha call on an existing checkout
ShaReturned == cmds # <<>> /\ IsRevParse(LastCmd)

\* C17: a get_repo_sha call on an existing checkout issues git fetch (only
\* when fetching is not disabled), git checkout, git reset --hard and the
\* short-hash read-back, in that order and nothing else; the calls before the
\* main build step fetch unless --no-pull is given; with --no-pull no fetch
\* command is executed anywhere in the run.
C17_FetchCheckoutResetReadBack ==
    /\ ShaReturned =>
          LET n == Len(cmds) IN
          /\ n \in {3, 4}
          /\ IsCheckout(cmds[n - 2]) /\ cmds[n - 2].argv[3] = Locals(parsed).rev
          /\ IsResetHard(cmds[n - 1]) /\ cmds[n - 1].argv[4] = Locals(parsed).rev
          /\ n = 4 => (IsFetch(cmds[1]) /\ ~parsed.no_pull)
          /\ (~parsed.no_pull /\ pc \in {"t_build", "o_distro"}) => n = 4
    /\ parsed.no_pull => \A i \in 1..Len(cmds) : ~IsFetch(cmds[i])

C17_Witness ==
    /\ ShaReturned /\ Len(cmds) = 4 /\ IsFetch(cmds[1]) /\ pc = "o_distro"

\* with --no-pull the read-back after the TES3MP build is reached, without a fetch
C17_NoPullReached ==
    /\ parsed.no_pull /\ ShaReturned /\ Len(cmds) = 3 /\ pc = "t_pkg"

\* the commit the requested revision names in the checkout of the main project
RequestedCommit ==
    RevCommit(fs, Join(Locals(parsed).src_dir, MainRepo(parsed)), Locals(parsed).rev)

C18_FirstCallWithoutCheckout ==
    /\ pc = "done" /\ Truthy(loc.sha) /\ call # NoCall /\ ~IsDir(call.entry.fs, RepoPath(call))

-----------------------------------------------------------------------------
(* Claims about a patch that is not a file, and about the interrupt *)

\* the patch path given on the command line is not an existing file
PatchNotAFile == Truthy(parsed.patch) /\ ~IsFile(fs, parsed.patch)

\* the run has not got beyond reading the flags: nothing executed, nothing on disk changed
StoppedAtFlags ==
    /\ pc = "args" /\ exit \in {"none", "1"}
    /\ cmds = <<>> /\ bpc = "idle" /\ ppc = "idle" /\ loc.steps = <<>>
    /\ fs \in {FreshFs, ClonedFs}

\* C19 (as claimed): a patch path that is not an existing file ends the run
\* with nonzero status before any external command, unless a force flag is
\* given: then the missing patch does not end the run.
C19_MissingPatchFatalUnlessForced ==
    /\ (PatchNotAFile /\ ~ForceFlag(parsed)) => StoppedAtFlags
    /\ (PatchNotAFile /\ ForceFlag(parsed) /\ exit # "none") => pc # "args"

\* C19 (amended): a patch path that is not an existing file ends the run with
\* status 1 while the flags are read, before any external command is executed
\* and before anything on disk is changed, whatever force flags are given.
C19_MissingPatchAlwaysFatal ==
    /\ [](PatchNotAFile => StoppedAtFlags)
    /\ [][(PatchNotAFile /\ pc = "args") => exit' = "1"]_vars

C19_Witness ==
    /\ PatchNotAFile /\ parsed.force_all /\ parsed.force_pkg
    /\ pc = "args" /\ exit = "1" /\ cmds = <<>>

\* C20: a KeyboardInterrupt raised at any point of main ends the process with
\* status 1 through error_and_die; the interrupt executes no command and
\* changes nothing on disk (no cleanup, no rollback), and nothing is executed
\* after it.
C20_InterruptExitsWithStatusOne ==
    /\ [](pc = "ctrl_c" => exit = "1")
    /\ [][pc' = "ctrl_c" => UNCHANGED <<fs, cmds, cwd, call, bpc, ppc>>]_vars
    /\ [][pc # "ctrl_c"]_vars

\* an interrupt during the main project's make: what the run has built so far stays
C20_Witness ==
    /\ pc = "ctrl_c" /\ exit = "1"
    /\ MainCall /\ bpc = "make" /\ cmds # <<>>
    /\ IsDir(fs, RepoPath(call)) /\ IsDir(fs, Join(Locals(parsed).install_prefix, OSG_OPENMW))

\* an interrupt before anything was done, and one during packaging
C20_InterruptAtStart == pc = "ctrl_c" /\ exit = "1" /\ cmds = <<>> /\ fs = FreshFs /\ loc.steps = <<>>
C20_InterruptWhilePackaging == pc = "ctrl_c" /\ exit = "1" /\ ppc \notin {"idle", "ret"}

-----------------------------------------------------------------------------
(* Claims about the commands of one build step *)

\* the place of a command of build_library in the order of lines 155-219
Phase(e) ==
    CASE IsClone(e) -> 1
      [] IsPatch(e) -> 3
      [] IsCmake(e) -> 4
      [] IsMake(e) -> 5
      [] IsMakeInstall(e) -> 6
      [] OTHER -> 2

PhaseAt(log, ph) == {i \in 1..Len(log) : Phase(log[i]) = ph}

\* C21: in a build step that is not skipped the commands on record are, in
\* this order: the clone (exactly when the source directory was missing), the
\* commands of the source reset, the patch (only if one was given), cmake, make
\* and make install (only if enabled); each occurs at most once, the source
\* reset as one unbroken block; make is on record only after a cmake that
\* exited zero, and nothing follows a clone, patch, cmake or make that failed.
C21_CommandsInFixedOrderOnce ==
    (InBuild /\ ~call.found) =>
        /\ \A i, j \in 1..Len(cmds) : i < j => Phase(cmds[i]) <= Phase(cmds[j])
        /\ \A ph \in {1, 3, 4, 5, 6} : Cardinality(PhaseAt(cmds, ph)) <= 1
        /\ (PhaseAt(cmds, 2) # {} =>
              [i \in 1..Len(GitCleanCmds(call)) |-> cmds[i + Cardinality(PhaseAt(cmds, 1))]]
                 = GitCleanCmds(call))
        /\ Cardinality(PhaseAt(cmds, 2)) \in {0, Len(GitCleanCmds(call))}
        /\ (PhaseAt(cmds, 1) # {} <=> (cmds # <<>> /\ ~EntrySrc))
        /\ (PhaseAt(cmds, 3) # {} => Truthy(call.patch))
        /\ (PhaseAt(cmds, 4) # {} => (PhaseAt(cmds, 2) # {} /\ (Truthy(call.patch) => PhaseAt(cmds, 3) # {})))
        /\ (PhaseAt(cmds, 5) # {} => \E i \in PhaseAt(cmds, 4) : cmds[i].rc = 0)
        /\ (PhaseAt(cmds, 6) # {} => (call.make_install /\ \E i \in PhaseAt(cmds, 5) : cmds[i].rc = 0))
        /\ \A i \in 1..(Len(cmds) - 1) : Phase(cmds[i]) \in {3, 4, 5} => cmds[i].rc = 0

\* a step that cloned, reset, patched, configured, compiled and installed
C21_Witness ==
    /\ bpc = "ret" /\ ~call.found /\ exit = "none"
    /\ \A ph \in {1, 3, 4, 5, 6} : Cardinality(PhaseAt(cmds, ph)) = 1
    /\ Len(cmds) = 5 + Len(GitCleanCmds(call))

\* a failed cmake ends the step: no make on record
C21_FailedConfigureReached ==
    /\ InBuild /\ exit = "1" /\ IsCmake(LastCmd) /\ LastCmd.rc # 0 /\ PhaseAt(cmds, 5) = {}

-----------------------------------------------------------------------------
(* Claims about the revision selectors *)

SelectorsGiven == {k \in {"sha", "tag", "branch"} : parsed[k] # <<>>}

\* the revision the selector on the command line asks for
SelectedRev ==
    IF parsed.branch # <<>>
    THEN IF \E i \in 1..Len(parsed.branch) : parsed.branch[i] \in {"/", "origin/"}
         THEN parsed.branch ELSE <<"origin/">> \o parsed.branch
    ELSE IF parsed.sha # <<>> THEN parsed.sha
    ELSE IF parsed.tag # <<>> THEN parsed.tag
    ELSE <<"origin/", "master">>

\* C22: the revision get_repo_sha checks out and resets to, and the version
\* the main project's build step is called with, is origin/<branch> for a
\* --branch value without a slash, the branch value itself when it contains a
\* slash, the --sha or --tag value itself, and origin/master when no selector
\* is given; a command line with more than one selector is rejected with
\* status 2 before anything is executed.
C22_RevisionFromSelector ==
    /\ ShaReturned =>
          /\ cmds[Len(cmds) - 2].argv = <<<<"git">>, <<"checkout">>, SelectedRev>>
          /\ cmds[Len(cmds) - 1].argv = <<<<"git">>, <<"reset">>, <<"--hard">>, SelectedRev>>
    /\ MainCall => call.version = SelectedRev
    /\ Cardinality(SelectorsGiven) > 1 =>
          /\ pc = "args" /\ exit \in {"none", "2"}
          /\ cmds = <<>> /\ loc.steps = <<>> /\ fs \in {FreshFs, ClonedFs}
    /\ exit = "2" => Cardinality(SelectorsGiven) > 1

\* a branch with a slash reaches the main project's configure as it was given
C22_Witness ==
    /\ parsed.branch = <<"upstream", "/", "dev">> /\ MainCall /\ bpc = "make"
    /\ call.version = <<"upstream", "/", "dev">>
    /\ \E i \in 1..Len(cmds) : cmds[i].argv = <<<<"git">>, <<"reset">>, <<"--hard">>, <<"upstream", "/", "dev">>>>

C22_BranchWithoutSlashReached ==
    /\ parsed.branch = <<"dev">> /\ ShaReturned /\ pc = "t_pkg"
    /\ cmds[Len(cmds) - 1].argv[4] = <<"origin/", "dev">>

C22_TwoSelectorsRejected == parsed.sha # <<>> /\ parsed.tag # <<>> /\ exit = "2" /\ pc = "args"

-----------------------------------------------------------------------------
(* Claims about the hash in the names of install directories and archives *)

ShortHashes == {"h1", "h2"}
HashesIn(name) == {h \in ShortHashes : \E i \in 1..Len(name) : name[i] = h}

\* the binary make_portable_package copies from the TES3MP build directory
PackagedBinary == Join(SRC_DIR, TES3MP \o <<"/", "build", "/">> \o TES3MP_SERVER)

\* the installed binaries under a directory <prefix>/<project>-<hash>
InstalledUnder(f, h) ==
    \E proj \in {OPENMW, TES3MP} : f.p = Join(INSTALL_PREFIX, proj \o <<"-", h, "/", "bin", "/">> \o proj)

HashedInstalls ==
    {x \in {[h |-> h, c |-> f.c, p |-> f.p] : h \in ShortHashes, f \in fs.files} :
        \E f \in fs.files : f.p = x.p /\ InstalledUnder(f, x.h)}

\* C23 (as claimed): a hash in the name of an install directory or of an
\* archive of the main project is the short hash of the commit the binaries in
\* it were compiled from.
C23_HashNamesCompiledRevision ==
    /\ \A x \in HashedInstalls : ShortHash(x.c) = <<x.h>>
    /\ (ppc = "tar" /\ pk.pkgname[1] = "tes3mp") =>
          \A h \in HashesIn(pk.pkgname) : ShortHash(Content(fs, PackagedBinary)) = <<h>>

\* what holds of C23: the install directories
C23_InstallDirsNamedByCompiledRevision == \A x \in HashedInstalls : ShortHash(x.c) = <<x.h>>

\* an install directory named by a hash is reached
C23_HashedInstallReached == \E x \in HashedInstalls : x.h = "h2" /\ run = 2

\* a TES3MP archive named with h2 is made of binaries compiled from commit c1
C23_ArchiveOfOtherRevision ==
    /\ ppc = "tar" /\ pk.pkgname[1] = "tes3mp" /\ HashesIn(pk.pkgname) = {"h2"}
    /\ Content(fs, PackagedBinary) = <<"c1">>

\* TES3MP: the fetch after the build moved origin/master, and the name carries
\* the hash of a commit that was not compiled
C23_NameOfUncompiledRevision ==
    /\ pc = "t_pkg" /\ exit = "none" /\ "h2" \in HashesIn(loc.name)
    /\ Content(fs, PackagedBinary) = <<"c1">>

-----------------------------------------------------------------------------
(* Claims about the revision of the OpenSceneGraph fork *)

OsgForkBranchReset(e) == IsResetHard(e) /\ e.argv[4] = <<"origin/">> \o OPENMW_OSG_BRANCH

\* C24 (as claimed): in a build of osg-openmw no checkout and no reset follows
\* the reset to origin/OPENMW_OSG_BRANCH, and once cmake is on record the
\* checkout is at that branch.
C24_OsgForkAtBranchWhenConfigured ==
    (InBuild /\ call.libname = OSG_OPENMW /\ ~call.found) =>
        /\ \A i, j \in 1..Len(cmds) :
              (i < j /\ OsgForkBranchReset(cmds[i])) => ~(IsCheckout(cmds[j]) \/ IsResetHard(cmds[j]))
        /\ ((\E i \in 1..Len(cmds) : IsCmake(cmds[i]))
              => Content(fs, HeadFile(RepoPath(call))) = <<"origin/">> \o OPENMW_OSG_BRANCH)

\* the fork is configured with its checkout at the default `version`, master
C24_OsgForkConfiguredAtMaster ==
    /\ InBuild /\ call.libname = OSG_OPENMW /\ cmds # <<>> /\ IsCmake(LastCmd)
    /\ \E i \in 1..Len(cmds) : OsgForkBranchReset(cmds[i])
    /\ Content(fs, HeadFile(RepoPath(call))) = <<"master">>

\* a fresh clone of the fork is at the branch until the source clean runs
C24_OsgForkClonedAtBranch ==
    /\ InBuild /\ call.libname = OSG_OPENMW /\ bpc = "clean"
    /\ Content(fs, HeadFile(RepoPath(call))) = <<"origin/">> \o OPENMW_OSG_BRANCH

-----------------------------------------------------------------------------
(* Claims about the build environment *)

LtoOn == [k |-> "OPENMW_LTO_BUILD", v |-> <<"on">>]
OpenmwCall == call.libname # <<>> /\ call.git_url = OPENMW_URL

\* C25 (as claimed): whenever cmake or make of the OpenMW build is on record,
\* the environment handed to it holds OPENMW_LTO_BUILD=on.
C25_LtoInBuildEnvironment ==
    (InBuild /\ OpenmwCall /\ \E i \in 1..Len(cmds) : IsCmake(cmds[i]) \/ IsMake(cmds[i]))
        => LtoOn \in call.env.vars

\* OpenMW compiled with an environment that lacks the variable, while the
\* program's own environment holds it
C25_CompiledWithoutLto ==
    /\ InBuild /\ OpenmwCall /\ cmds # <<>> /\ IsMake(LastCmd) /\ LastCmd.rc = 0
    /\ LtoOn \notin call.env.vars /\ LtoOn \in loc.environ

-----------------------------------------------------------------------------
(* Claims about packaging on the distributions install_packages accepts *)

AcceptedDistro(d) == d # PyNone /\ ~Unsupported(d)
Staged == ppc = "copy" /\ IsDir(fs, PkgDir(pk))

\* C26 (as claimed): once make_portable_package has created the staging
\* directory for a distribution install_packages accepts, a branch has
\* assigned the set of system libraries to copy.
C26_SystemLibsForEveryAcceptedDistro ==
    (Staged /\ AcceptedDistro(pk.distro)) => SystemLibsDefined(pk.distro, host.forge)

\* with every file to copy in place the packager stops on the unassigned
\* system_libs, staging directory left behind and no archive written
C26_StoppedOnUndefinedLibs ==
    /\ Staged /\ exit = "traceback" /\ AcceptedDistro(pk.distro)
    /\ PkgFilesPresent(fs, pk.serveronly)
    /\ ~SystemLibsDefined(pk.distro, host.forge)
    /\ ~Exists(fs, PkgPath(pk))

\* the distributions accepted by install_packages that the packager has no
\* library set for, and those it archives
C26_EveryUncoveredDistroStops ==
    {DistroFamily(d) : d \in {x \in PkgDistros \ {PyNone} : ~SystemLibsDefined(x, FALSE)}}
        = {"arch", "devuan", "ubuntu", "fedora"}
    /\ (ppc = "ret" /\ ~host.forge => DistroFamily(pk.distro) \in {"void", "ubuntu", "debian"})

C26_ArchiveOnDebian ==
    /\ ppc = "ret" /\ ~host.forge /\ DistroFamily(pk.distro) = "debian" /\ IsFile(fs, PkgPath(pk))

====
